---- MODULE Spec2Model ----
(***************************************************************************)
(* Model of the image-ingest worker: processImage (src/src/pipeline/       *)
(* index.ts) with the rate limiter, the fetcher, the decoder, the side,    *)
(* collage and vision classifiers, the derivative generator, the uploader  *)
(* and the catalog gateway it calls.                                       *)
(*                                                                         *)
(* Each task (one call of processImage) is a process that advances from    *)
(* one suspension point to the next.  A step that touches the catalog, the *)
(* blob store or the bucket map is an action of its own; the awaits that   *)
(* touch only the task's locals (decode, side, collage, vision) and the    *)
(* event emission that follows a stage are part of the same action.        *)
(*                                                                         *)
(* Confidences are integers in units of 1/10000 (0.85 is 8500), scores in  *)
(* units of 1/10, times in milliseconds.                                   *)
(***************************************************************************)
EXTENDS Integers, Sequences, FiniteSets, TLC

None == "none"

(* ------------------------------ bounds --------------------------------- *)
\* catalog / blob-store errors injected over a run (logIngestEvent excluded)
MaxFaults == 1
\* logIngestEvent errors injected over a run
MaxLogFaults == 1
\* the clock advances in steps of TickMs up to MaxNow
TickMs == 500
MaxNow == 1000
\* direct calls of tryAcquire recorded over a run
MaxCalls == 4
\* over a long run the clock advances in steps of LongTickMs up to MaxLongNow,
\* stopping at every moment a timer falls due
LongTickMs == 30000
MaxLongNow == 120000

(* ------------------------- program constants --------------------------- *)
maxImagePixels == 20000000
minConfidenceForAssignment == 8500
visionCheckLowerBound == 6000
visionCheckUpperBound == 9000
sampleRate == 1000
CACHE_DURATION_MS == 60000
EXPECTED_CARD_ASPECT_RATIO == 716
ASPECT_RATIO_TOLERANCE == 80
thumbWidth == 160
gridWidth == 360
detailWidth == 960
KnownErrorLength == 186316
FETCH_TIMEOUT_MS == 30000

\* the tasks (calls of processImage) a run may hold; Workers run interleaved
Procs == {"p1", "p2", "p3"}
Workers == {"p1", "p2"}
Cards == {"c1", "c2"}
Variants == <<"thumb", "grid", "detail">>
VariantSet == {"thumb", "grid", "detail"}

(* ------------------------------ the world ------------------------------ *)
\* image_sources rows of the catalog (read-only for the worker)
ImageSources ==
    { [id |-> "s1", name |-> "pokemontcg_api", trustTier |-> 1, maxRps |-> 1,
       maxConcurrency |-> 1, isAllowed |-> TRUE],
      [id |-> "s2", name |-> "tcgplayer", trustTier |-> 2, maxRps |-> 2,
       maxConcurrency |-> 2, isAllowed |-> TRUE],
      [id |-> "s3", name |-> "scraper", trustTier |-> 3, maxRps |-> 1,
       maxConcurrency |-> 1, isAllowed |-> FALSE] }

SourceIds == {s.id : s \in ImageSources}

\* What sharp reads from a body: its byte length, its dimensions (0 when
\* sharp reports none), the counts analyzePixelColors takes over the 1392
\* border pixels, and whether more than 15% of the middle columns carry a
\* strong vertical edge.
Bodies ==
    [ front   |-> [len |-> 90000, width |-> 734, height |-> 1024,
                   blue |-> 0, yellow |-> 900, maxHue |-> 1000, edges |-> FALSE],
      front80 |-> [len |-> 80000, width |-> 600, height |-> 600,
                   blue |-> 0, yellow |-> 700, maxHue |-> 800, edges |-> FALSE],
      back    |-> [len |-> 70000, width |-> 734, height |-> 1024,
                   blue |-> 1200, yellow |-> 0, maxHue |-> 1300, edges |-> FALSE],
      collage |-> [len |-> 60000, width |-> 1600, height |-> 600,
                   blue |-> 0, yellow |-> 0, maxHue |-> 300, edges |-> FALSE],
      sheet   |-> [len |-> 65000, width |-> 734, height |-> 1024,
                   blue |-> 0, yellow |-> 900, maxHue |-> 1000, edges |-> TRUE],
      max     |-> [len |-> 50000, width |-> 5000, height |-> 4000,
                   blue |-> 0, yellow |-> 0, maxHue |-> 1392, edges |-> FALSE],
      huge    |-> [len |-> 50001, width |-> 5000, height |-> 4001,
                   blue |-> 0, yellow |-> 900, maxHue |-> 1000, edges |-> FALSE],
      nodims  |-> [len |-> 40000, width |-> 0, height |-> 0,
                   blue |-> 0, yellow |-> 0, maxHue |-> 0, edges |-> FALSE],
      errpay  |-> [len |-> 186316, width |-> 734, height |-> 1024,
                   blue |-> 0, yellow |-> 900, maxHue |-> 1000, edges |-> FALSE],
      page    |-> [len |-> 1000, width |-> 0, height |-> 0,
                   blue |-> 0, yellow |-> 0, maxHue |-> 0, edges |-> FALSE],
      tiny    |-> [len |-> 3000, width |-> 100, height |-> 140,
                   blue |-> 0, yellow |-> 900, maxHue |-> 1000, edges |-> FALSE],
      big     |-> [len |-> 25000000, width |-> 4000, height |-> 3000,
                   blue |-> 0, yellow |-> 0, maxHue |-> 1392, edges |-> FALSE] ]

\* What the remote server answers for each URL: net = "error" is a transport
\* failure; otherwise a status, a content-type (type, subtype) and a body.
Responses ==
    [ u_front   |-> [net |-> "ok", status |-> 200, contentType |-> <<"image", "jpeg">>, body |-> "front"],
      u_front80 |-> [net |-> "ok", status |-> 200, contentType |-> <<"image", "png">>, body |-> "front80"],
      u_back    |-> [net |-> "ok", status |-> 200, contentType |-> <<"image", "jpeg">>, body |-> "back"],
      u_collage |-> [net |-> "ok", status |-> 200, contentType |-> <<"image", "jpeg">>, body |-> "collage"],
      u_sheet   |-> [net |-> "ok", status |-> 200, contentType |-> <<"image", "jpeg">>, body |-> "sheet"],
      u_max     |-> [net |-> "ok", status |-> 200, contentType |-> <<"image", "png">>, body |-> "max"],
      u_huge    |-> [net |-> "ok", status |-> 200, contentType |-> <<"image", "png">>, body |-> "huge"],
      u_nodims  |-> [net |-> "ok", status |-> 200, contentType |-> <<"image", "gif">>, body |-> "nodims"],
      u_errpay  |-> [net |-> "ok", status |-> 200, contentType |-> <<"image", "png">>, body |-> "errpay"],
      u_html    |-> [net |-> "ok", status |-> 200, contentType |-> <<"text", "html">>, body |-> "page"],
      u_404     |-> [net |-> "ok", status |-> 404, contentType |-> <<"text", "html">>, body |-> "page"],
      u_down    |-> [net |-> "error", status |-> 0, contentType |-> <<"", "">>, body |-> "page"],
      u_tiny    |-> [net |-> "ok", status |-> 200, contentType |-> <<"image", "png">>, body |-> "tiny"],
      u_big     |-> [net |-> "ok", status |-> 200, contentType |-> <<"image", "jpeg">>, body |-> "big"] ]

Urls == DOMAIN Responses

(* --------------------------- utils/hash.ts ----------------------------- *)
\* SHA-256 over the body, as a hex string cut to four digits: one digest per
\* body of the table, no two alike.
computeSha256(bytes) ==
    CASE bytes = "front"   -> <<"a", "1", "f", "0">>
      [] bytes = "front80" -> <<"a", "1", "0", "7">>
      [] bytes = "back"    -> <<"3", "c", "9", "e">>
      [] bytes = "collage" -> <<"7", "d", "2", "2">>
      [] bytes = "sheet"   -> <<"7", "e", "5", "b">>
      [] bytes = "max"     -> <<"0", "0", "4", "8">>
      [] bytes = "huge"    -> <<"f", "6", "6", "1">>
      [] bytes = "nodims"  -> <<"9", "b", "0", "c">>
      [] bytes = "errpay"  -> <<"5", "5", "a", "d">>
      [] bytes = "tiny"    -> <<"c", "4", "1", "1">>
      [] bytes = "big"     -> <<"b", "1", "6", "6">>
      [] OTHER             -> <<"e", "3", "b", "0">>

getStoragePathPrefix(sha256) == SubSeq(sha256, 1, 2)

\* `derivatives/${prefix}/${sha256}/${variant}.webp`, as its path segments
getDerivativeStoragePath(sha256, variant) ==
    <<<<"derivatives">>, getStoragePathPrefix(sha256), sha256, <<variant, "webp">>>>

(* ------------------------------ errors --------------------------------- *)
\* An error message: its fixed text and the number interpolated into it.
Err(msg, n) == [msg |-> msg, n |-> n]
NoError == Err("", 0)

(* --------------------------- pipeline/fetch ---------------------------- *)
KNOWN_ERROR_PAYLOADS(sourceName) ==
    IF sourceName = "pokemontcg_api" THEN {KnownErrorLength} ELSE {}

\* a fetch that knows no error payload
isKnownErrorPayload_Never(bytes, sourceName) == FALSE

isKnownErrorPayload(bytes, sourceName) ==
    LET errorSizes == KNOWN_ERROR_PAYLOADS(sourceName)
    IN  errorSizes # {} /\ Bodies[bytes].len \in errorSizes

FetchFail(error, httpStatus) ==
    [ok |-> FALSE, bytes |-> None, contentType |-> <<"", "">>,
     error |-> error, httpStatus |-> httpStatus]

fetchImage(url, sourceName) ==
    LET response == Responses[url]
    IN  IF response.net = "error"
          THEN FetchFail(Err("fetch failed", 0), 0)
        ELSE IF ~(response.status >= 200 /\ response.status <= 299)
          THEN FetchFail(Err("HTTP", response.status), response.status)
        ELSE IF response.contentType[1] # "image"
          THEN FetchFail(Err("Invalid content type", 0), response.status)
        ELSE IF sourceName # "" /\ isKnownErrorPayload(response.body, sourceName)
          THEN FetchFail(Err("known_error_payload", 0), response.status)
        ELSE [ok |-> TRUE, bytes |-> response.body,
              contentType |-> response.contentType,
              error |-> NoError, httpStatus |-> response.status]

(* --------------------------- pipeline/decode --------------------------- *)
\* a decoder that also refuses an image of exactly maxImagePixels
decodeImage_Inclusive(buffer) ==
    LET metadata == Bodies[buffer]
        pixels == metadata.width * metadata.height
    IN  IF metadata.width = 0 \/ metadata.height = 0
          THEN [ok |-> FALSE, error |-> Err("Could not determine image dimensions", 0),
                width |-> 0, height |-> 0]
        ELSE IF pixels >= maxImagePixels
          THEN [ok |-> FALSE, error |-> Err("Image too large", pixels),
                width |-> 0, height |-> 0]
        ELSE [ok |-> TRUE, error |-> NoError,
              width |-> metadata.width, height |-> metadata.height]

decodeImage(buffer) ==
    LET metadata == Bodies[buffer]
        pixels == metadata.width * metadata.height
    IN  IF metadata.width = 0 \/ metadata.height = 0
          THEN [ok |-> FALSE, error |-> Err("Could not determine image dimensions", 0),
                width |-> 0, height |-> 0]
        ELSE IF pixels > maxImagePixels
          THEN [ok |-> FALSE, error |-> Err("Image too large", pixels),
                width |-> 0, height |-> 0]
        ELSE [ok |-> TRUE, error |-> NoError,
              width |-> metadata.width, height |-> metadata.height]

(* ------------------------- pipeline/detect-side ------------------------ *)
Abs(x) == IF x < 0 THEN -x ELSE x
Min(a, b) == IF a < b THEN a ELSE b

borderSize == (64 * 10) \div 100
\* the number of pixels extractBorderPixels returns for a 64x64 image
BorderPixels == 64 * 64 - (64 - 2 * borderSize) * (64 - 2 * borderSize)

analyzePixelColors(buffer) ==
    LET b == Bodies[buffer]
    IN  [isBlueBack      |-> 10 * b.blue > 5 * BorderPixels,
         hasYellowBorder |-> 10 * b.yellow > 3 * BorderPixels,
         hasVariedColors |-> 10 * b.maxHue < 4 * BorderPixels]

\* aspectDiff <= ASPECT_RATIO_TOLERANCE, with width/height scaled by 1000*height
AspectRatioMatch(width, height) ==
    Abs(1000 * width - EXPECTED_CARD_ASPECT_RATIO * height)
        <= ASPECT_RATIO_TOLERANCE * height

\* score in tenths
SideScore(buffer, width, height) ==
    LET borderAnalysis == analyzePixelColors(buffer)
        aspect == IF AspectRatioMatch(width, height) THEN 2 ELSE 0
    IN  IF borderAnalysis.isBlueBack THEN aspect - 6
        ELSE IF borderAnalysis.hasYellowBorder THEN aspect + 3
        ELSE IF borderAnalysis.hasVariedColors THEN aspect + 2
        ELSE aspect

\* a heuristic that is less sure of an unknown side than of a known one
detectSide_LowUnknown(buffer, width, height) ==
    LET score == SideScore(buffer, width, height)
    IN  IF score >= 3
          THEN [side |-> "front", confidence |-> Min(9500, 5000 + 1000 * score),
                method |-> "heuristic"]
        ELSE IF score <= -3
          THEN [side |-> "back",
                confidence |-> IF score = -4 THEN 8999
                               ELSE Min(9500, 5000 + 1000 * Abs(score)),
                method |-> "heuristic"]
        ELSE [side |-> "unknown", confidence |-> 2000, method |-> "heuristic"]

\* 0.5 + |0.2 - 0.6| is 0.8999999999999999 in double arithmetic, below 0.9:
\* the one score whose confidence is not a multiple of 0.05.
detectSide(buffer, width, height) ==
    LET score == SideScore(buffer, width, height)
    IN  IF score >= 3
          THEN [side |-> "front", confidence |-> Min(9500, 5000 + 1000 * score),
                method |-> "heuristic"]
        ELSE IF score <= -3
          THEN [side |-> "back",
                confidence |-> IF score = -4 THEN 8999
                               ELSE Min(9500, 5000 + 1000 * Abs(score)),
                method |-> "heuristic"]
        ELSE [side |-> "unknown", confidence |-> 5000, method |-> "heuristic"]

(* --------------------------- pipeline/collage -------------------------- *)
detectCollage(buffer) ==
    LET metadata == Bodies[buffer]
    IN  IF metadata.width = 0 \/ metadata.height = 0 THEN FALSE
        ELSE IF 10 * metadata.width > 15 * metadata.height
                \/ 10 * metadata.width < 4 * metadata.height THEN TRUE
        ELSE metadata.edges

(* --------------------------- pipeline/vision --------------------------- *)
\* A reply of the vision model is the set of keywords its text contains;
\* "ERROR" stands for a non-2xx answer, a parse failure or an exception.
VisionReplies ==
    { {"FRONT"}, {"BACK"}, {"WRONG_CARD"}, {}, {"FRONT", "BACK"}, {"ERROR"} }

openrouterApiKeySet == TRUE

\* a checker that is certain of a side it recognises
checkWithVision_Certain(reply) ==
    IF ~openrouterApiKeySet \/ "ERROR" \in reply
      THEN [side |-> "unknown", confidence |-> 5000, method |-> "vision"]
    ELSE IF "FRONT" \in reply
      THEN [side |-> "front", confidence |-> 10000, method |-> "vision"]
    ELSE IF "BACK" \in reply
      THEN [side |-> "back", confidence |-> 10000, method |-> "vision"]
    ELSE IF "WRONG_CARD" \in reply
      THEN [side |-> "unknown", confidence |-> 3000, method |-> "vision"]
    ELSE [side |-> "unknown", confidence |-> 5000, method |-> "vision"]

checkWithVision(reply) ==
    IF ~openrouterApiKeySet \/ "ERROR" \in reply
      THEN [side |-> "unknown", confidence |-> 5000, method |-> "vision"]
    ELSE IF "FRONT" \in reply
      THEN [side |-> "front", confidence |-> 9500, method |-> "vision"]
    ELSE IF "BACK" \in reply
      THEN [side |-> "back", confidence |-> 9500, method |-> "vision"]
    ELSE IF "WRONG_CARD" \in reply
      THEN [side |-> "unknown", confidence |-> 3000, method |-> "vision"]
    ELSE [side |-> "unknown", confidence |-> 5000, method |-> "vision"]

\* a check that samples tier 3 as it samples tier 2
shouldRunVisionCheck_NoTier3(trustTier, currentConfidence, random) ==
    IF trustTier = 1 THEN FALSE
    ELSE IF currentConfidence >= visionCheckLowerBound
            /\ currentConfidence < visionCheckUpperBound THEN TRUE
    ELSE random < sampleRate

\* random is the value of Math.random(), in units of 1/10000
shouldRunVisionCheck(trustTier, currentConfidence, random) ==
    IF trustTier = 1 THEN FALSE
    ELSE IF trustTier = 3 THEN TRUE
    ELSE IF currentConfidence >= visionCheckLowerBound
            /\ currentConfidence < visionCheckUpperBound THEN TRUE
    ELSE random < sampleRate

\* a vision result that also wins a tie
finalSide_Ties(sideResult, runVision, visionResult) ==
    IF runVision /\ visionResult.confidence >= sideResult.confidence
      THEN visionResult
      ELSE sideResult

\* processImage, lines 125-134: the side result after the optional vision check
finalSide(sideResult, runVision, visionResult) ==
    IF runVision /\ visionResult.confidence > sideResult.confidence
      THEN visionResult
      ELSE sideResult

(* ------------------------- storage/derivatives ------------------------- *)
derivativeWidth(variant) ==
    CASE variant = "thumb" -> thumbWidth
      [] variant = "grid"  -> gridWidth
      [] OTHER             -> detailWidth

\* a generator that resizes every variant to its target width
generateDerivatives_Upscale(sha256, originalWidth) ==
    [i \in 1..3 |->
        [variant |-> Variants[i],
         width |-> derivativeWidth(Variants[i]),
         storagePath |-> getDerivativeStoragePath(sha256, Variants[i])]]

generateDerivatives(sha256, originalWidth) ==
    [i \in 1..3 |->
        [variant |-> Variants[i],
         width |-> Min(derivativeWidth(Variants[i]), originalWidth),
         storagePath |-> getDerivativeStoragePath(sha256, Variants[i])]]

(* --------------------------- utils/rate-limit -------------------------- *)
\* buckets is the Map<string, TokenBucket>: a function whose domain is the
\* set of source ids that have a bucket.
initBucket(b, sourceId, maxRps, t) ==
    [k \in DOMAIN b \cup {sourceId} |->
        IF k = sourceId
          THEN [tokens |-> maxRps, lastRefill |-> t,
                maxTokens |-> maxRps, refillRate |-> maxRps]
          ELSE b[k]]

\* Math.floor(elapsed * bucket.refillRate), elapsed in seconds
refillTokens(bucket, t) == ((t - bucket.lastRefill) * bucket.refillRate) \div 1000

refilled(bucket, t) ==
    IF refillTokens(bucket, t) > 0
      THEN [bucket EXCEPT !.tokens = Min(bucket.maxTokens, bucket.tokens + refillTokens(bucket, t)),
                          !.lastRefill = t]
      ELSE bucket

\* a limiter that debits before it tests the token count
tryAcquire_DebitFirst(b, sourceId, t) ==
    IF sourceId \notin DOMAIN b
      THEN [ok |-> TRUE, buckets |-> b]
      ELSE LET bucket == refilled(b[sourceId], t)
           IN  [ok |-> bucket.tokens > 0,
                buckets |-> [b EXCEPT ![sourceId] = [bucket EXCEPT !.tokens = bucket.tokens - 1]]]

\* the pair (returned value, bucket map after the call)
tryAcquire(b, sourceId, t) ==
    IF sourceId \notin DOMAIN b
      THEN [ok |-> TRUE, buckets |-> b]
      ELSE LET bucket == refilled(b[sourceId], t)
           IN  IF bucket.tokens > 0
                 THEN [ok |-> TRUE,
                       buckets |-> [b EXCEPT ![sourceId] = [bucket EXCEPT !.tokens = bucket.tokens - 1]]]
                 ELSE [ok |-> FALSE, buckets |-> [b EXCEPT ![sourceId] = bucket]]

\* a wait time rounded down
getWaitTime_Floor(b, sourceId) ==
    IF sourceId \notin DOMAIN b \/ b[sourceId].tokens > 0
      THEN 0
      ELSE 1000 \div b[sourceId].refillRate

\* Math.ceil(1000 / bucket.refillRate)
getWaitTime(b, sourceId) ==
    IF sourceId \notin DOMAIN b \/ b[sourceId].tokens > 0
      THEN 0
      ELSE (1000 + b[sourceId].refillRate - 1) \div b[sourceId].refillRate

(* ------------------------------ db/queries ----------------------------- *)
\* images is the table in insertion order; a row's id is its position.
\* .single() yields a row only when exactly one matches.
findImageBySha256(imgs, sha256, error) ==
    LET hits == {i \in 1..Len(imgs) : imgs[i].sha256 = sha256}
    IN  IF error \/ Cardinality(hits) # 1 THEN 0 ELSE CHOOSE i \in hits : TRUE

getImageSource(srcs, sourceId, error) ==
    LET hits == {s \in srcs : s.id = sourceId}
    IN  IF error \/ hits = {} THEN None ELSE sourceId

getImageSourceByName(srcs, name, error) ==
    LET hits == {s \in srcs : s.name = name}
    IN  IF error \/ hits = {} THEN None ELSE (CHOOSE s \in hits : TRUE).id

\* the row of a source in the table srcs
SourceRowIn(srcs, sourceId) == CHOOSE s \in srcs : s.id = sourceId

SourceRow(sourceId) == SourceRowIn(ImageSources, sourceId)

\* the unique index on images.sha256
Sha256Taken(imgs, sha256) == \E i \in 1..Len(imgs) : imgs[i].sha256 = sha256

\* a catalog without the unique index: only a catalog error fails the insert
createImageRecordFails_NoIndex(imgs, sha256, error) == error

\* the insert fails on a catalog error or on the unique index
createImageRecordFails(imgs, sha256, error) == error \/ Sha256Taken(imgs, sha256)

createImageRecord(imgs, sha256, sideResult, isCollage) ==
    Append(imgs, [sha256 |-> sha256, status |-> "processing",
                  detectedSide |-> sideResult.side,
                  sideConfidence |-> sideResult.confidence,
                  isCollage |-> isCollage,
                  detectedMethod |-> sideResult.method])

updateImageStatus(imgs, imageId, status, error) ==
    IF error THEN imgs ELSE [imgs EXCEPT ![imageId].status = status]

\* a plain insert: an earlier row of the card stays
assignImageToCard_Insert(rows, cardId, imageId, role, sourceId, sourceUrl) ==
    rows \cup {[cardId |-> cardId, imageId |-> imageId, role |-> role,
                sourceId |-> sourceId, sourceUrl |-> sourceUrl]}

\* an insert that leaves an earlier row of the card and role in place
assignImageToCard_KeepFirst(rows, cardId, imageId, role, sourceId, sourceUrl) ==
    IF \E r \in rows : r.cardId = cardId /\ r.role = role
      THEN rows
      ELSE rows \cup {[cardId |-> cardId, imageId |-> imageId, role |-> role,
                       sourceId |-> sourceId, sourceUrl |-> sourceUrl]}

\* upsert on (card_id, role)
assignImageToCard(rows, cardId, imageId, role, sourceId, sourceUrl) ==
    {r \in rows : ~(r.cardId = cardId /\ r.role = role)}
        \cup {[cardId |-> cardId, imageId |-> imageId, role |-> role,
               sourceId |-> sourceId, sourceUrl |-> sourceUrl]}

\* the catalog receiving a later event ahead of the earlier ones
logIngestEvent_Prepend(evs, eventType, message, imageId, error) ==
    <<[eventType |-> eventType, message |-> message,
       imageId |-> imageId, stored |-> ~error]>> \o evs

\* One emission: the event handed to logIngestEvent and whether the insert
\* stored it.  An insert error is logged and swallowed: the call returns
\* normally either way.
logIngestEvent(evs, eventType, message, imageId, error) ==
    Append(evs, [eventType |-> eventType, message |-> message,
                 imageId |-> imageId, stored |-> ~error])

(* ------------------------------- state --------------------------------- *)
VARIABLES
    now,          \* Date.now(), in ms since the worker started
    buckets,      \* rate-limit.ts: the bucket map
    calls,        \* history: the rate checks made, in order
    images,       \* catalog: images
    derivatives,  \* catalog: image_derivatives
    cardImages,   \* catalog: card_images
    blobs,        \* blob store: the paths written
    events,       \* per task, the emissions made through logIngestEvent
    proc,         \* per task, the locals of processImage and its position
    faults,       \* catalog / blob-store errors still to be injected
    logFaults,    \* logIngestEvent errors still to be injected
    pool,         \* the jobs that may arrive
    twin,         \* the same run with every logIngestEvent insert succeeding
    http,         \* per task, the HTTP request that carries it and its answer
    fetches,      \* hash.ts: per task, the GET of fetchImage and its abort timer
    sweepAt,      \* rate-limit.ts: when the setInterval callback is next due
    waits,        \* history: the last call of getWaitTime and what it returned
    replies       \* history: what the vision model answered each task, and
                  \* how the sha256 lookup of each task went

vars == <<now, buckets, calls, images, derivatives, cardImages, blobs, events,
          proc, faults, logFaults, pool, twin, http, fetches, sweepAt, waits,
          replies>>

\* the state the steps of processImage read and write
St == [now |-> now, buckets |-> buckets, calls |-> calls, images |-> images,
       derivatives |-> derivatives, cardImages |-> cardImages, blobs |-> blobs,
       events |-> events, proc |-> proc, faults |-> faults,
       logFaults |-> logFaults, sources |-> ImageSources]

Apply(t) ==
    /\ now' = t.now
    /\ buckets' = t.buckets
    /\ calls' = t.calls
    /\ images' = t.images
    /\ derivatives' = t.derivatives
    /\ cardImages' = t.cardImages
    /\ blobs' = t.blobs
    /\ events' = t.events
    /\ proc' = t.proc
    /\ faults' = t.faults
    /\ logFaults' = t.logFaults

NoJob == [cardId |-> None, sourceUrl |-> None, sourceId |-> None,
          sourceName |-> None, trustTier |-> 0]
NoSide == [side |-> "unknown", confidence |-> 0, method |-> None]
NoResult == [status |-> None, imageId |-> 0, sha256 |-> <<>>,
             detectedSide |-> None, confidence |-> 0, error |-> NoError]
\* did: history, the effects the task has had so far
IdleProc == [pc |-> "idle", job |-> NoJob, source |-> None, trustTier |-> 0,
             sourceName |-> None, bytes |-> None, sha256 |-> <<>>,
             imageId |-> 0, width |-> 0, sideResult |-> NoSide,
             isCollage |-> FALSE, result |-> NoResult, did |-> {}]

Job(cardId, sourceUrl, sourceId, sourceName, trustTier) ==
    [cardId |-> cardId, sourceUrl |-> sourceUrl, sourceId |-> sourceId,
     sourceName |-> sourceName, trustTier |-> trustTier]

\* The jobs the tasks are started with: every URL of the world, the source
\* named by id, by name or not at all.
Jobs ==
    { Job("c1", "u_front", "s1", None, 0),
      Job("c2", "u_front", "s1", None, 0),
      Job("c1", "u_front80", "s3", None, 0),
      Job("c1", "u_back", None, "tcgplayer", 0),
      Job("c2", "u_sheet", None, None, 0),
      Job("c1", "u_collage", "s1", None, 0),
      Job("c2", "u_max", "s1", None, 0),
      Job("c1", "u_huge", "s1", None, 0),
      Job("c1", "u_nodims", None, None, 0),
      Job("c1", "u_errpay", "s1", None, 0),
      Job("c2", "u_errpay", "s3", None, 0),
      Job("c1", "u_html", "s3", None, 0),
      Job("c2", "u_404", None, None, 0),
      Job("c1", "u_down", "s1", None, 0) }

\* Math.random(), in units of 1/10000: one value below sampleRate, one above
Randoms == {0, 5000}

FaultChoices == IF faults > 0 THEN BOOLEAN ELSE {FALSE}
FailAtChoices == IF faults > 0 THEN 0..3 ELSE {0}
Count(errs) == Cardinality({i \in DOMAIN errs : errs[i]})
\* the outcomes of the (at most two) logIngestEvent inserts of one step
LogErrs == {le \in [1..2 -> BOOLEAN] : Count(le) <= logFaults}
NoLogErr == [i \in 1..2 |-> FALSE]

\* The worker after start-up, facing an empty catalog and blob store.
FreshSt ==
    [now |-> 0, buckets |-> << >>, calls |-> << >>, images |-> << >>,
     derivatives |-> {}, cardImages |-> {}, blobs |-> {},
     events |-> [p \in Procs |-> << >>], proc |-> [p \in Procs |-> IdleProc],
     faults |-> 0, logFaults |-> 0, sources |-> ImageSources]

\* The catalog and blob store an earlier run left behind: the state a fresh
\* worker reaches when Job("c2", "u_front", "s1") completes.
SeedSha == computeSha256("front")
SeededSt ==
    [FreshSt EXCEPT
       !.images = << [sha256 |-> SeedSha, status |-> "completed",
                      detectedSide |-> "front", sideConfidence |-> 9500,
                      isCollage |-> FALSE, detectedMethod |-> "heuristic"] >>,
       !.derivatives = {[imageId |-> 1, variant |-> d.variant, width |-> d.width,
                         storagePath |-> d.storagePath] :
                        d \in {generateDerivatives(SeedSha, 734)[i] : i \in 1..3}},
       !.cardImages = {[cardId |-> "c2", imageId |-> 1, role |-> "primary_front",
                        sourceId |-> "s1", sourceUrl |-> "u_front"]},
       !.blobs = {generateDerivatives(SeedSha, 734)[i].storagePath : i \in 1..3}]

\* no request received, no answer sent
NoExchange == [endpoint |-> None, ran |-> FALSE, status |-> 0, body |-> NoResult,
               error |-> NoError]
NoHttp == [p \in Procs |-> NoExchange]

\* no GET issued
NoFetch == [phase |-> "none", url |-> None, sourceName |-> None, deadline |-> 0,
            armed |-> FALSE, result |-> FetchFail(NoError, 0)]
NoFetches == [p \in Procs |-> NoFetch]

NoWait == [sourceId |-> None, ms |-> 0]

\* on: whether the answers of the vision model are kept; onLookup: whether
\* the outcomes of the sha256 lookup are
NoReplies(on) ==
    [on |-> on, of |-> [p \in Procs |-> {None}],
     onLookup |-> FALSE, lookup |-> [p \in Procs |-> None]]

\* the worker just loaded: no GET issued, the sweeper's interval started, no
\* wait time asked for, no answer received
LoadedWith(none) ==
    /\ http = NoHttp
    /\ fetches = NoFetches
    /\ sweepAt = CACHE_DURATION_MS
    /\ waits = NoWait
    /\ replies = none

Loaded(on) == LoadedWith(NoReplies(on))

\* the state variables start as s, with the given budgets of injected errors
Start_(s, nFaults, nLogFaults) ==
    /\ now = s.now
    /\ buckets = s.buckets
    /\ calls = s.calls
    /\ images = s.images
    /\ derivatives = s.derivatives
    /\ cardImages = s.cardImages
    /\ blobs = s.blobs
    /\ events = s.events
    /\ proc = s.proc
    /\ faults = nFaults
    /\ logFaults = nLogFaults

Init ==
    /\ \E s \in {FreshSt, SeededSt} : Start_(s, MaxFaults, 0)
    /\ pool = Jobs
    /\ twin = [on |-> FALSE, st |-> FreshSt]
    /\ Loaded(FALSE)

(* --------------------------- processImage ------------------------------ *)
\* a resolution that lets the job's own trust tier override the source's
resolveSource_JobTier(srcs, job, idError, nameError) ==
    LET byId == IF job.sourceId # None
                  THEN getImageSource(srcs, job.sourceId, idError) ELSE None
        source == IF byId = None /\ job.sourceName # None
                    THEN getImageSourceByName(srcs, job.sourceName, nameError)
                    ELSE byId
    IN  [source |-> source,
         trustTier |-> IF job.trustTier # 0 THEN job.trustTier
                       ELSE IF source # None THEN SourceRowIn(srcs, source).trustTier ELSE 3,
         sourceName |-> IF source # None THEN SourceRowIn(srcs, source).name
                        ELSE IF job.sourceName # None THEN job.sourceName
                        ELSE "unknown"]

\* lines 43-50
resolveSource(srcs, job, idError, nameError) ==
    LET byId == IF job.sourceId # None
                  THEN getImageSource(srcs, job.sourceId, idError) ELSE None
        source == IF byId = None /\ job.sourceName # None
                    THEN getImageSourceByName(srcs, job.sourceName, nameError)
                    ELSE byId
    IN  [source |-> source,
         trustTier |-> IF source # None THEN SourceRowIn(srcs, source).trustTier
                       ELSE IF job.trustTier # 0 THEN job.trustTier ELSE 3,
         sourceName |-> IF source # None THEN SourceRowIn(srcs, source).name
                        ELSE IF job.sourceName # None THEN job.sourceName
                        ELSE "unknown"]

\* lines 54-55: initBucket, then tryAcquire
rateCheck(srcs, b, sourceId, t) ==
    tryAcquire(initBucket(b, sourceId, SourceRowIn(srcs, sourceId).maxRps, t),
               sourceId, t)

\* the gate without the collage test
canAssign_NoCollage(sideResult, isCollage) ==
    /\ sideResult.side = "front"
    /\ sideResult.confidence >= minConfidenceForAssignment

\* lines 208-211
canAssign(sideResult, isCollage) ==
    /\ sideResult.side = "front"
    /\ sideResult.confidence >= minConfidenceForAssignment
    /\ ~isCollage

\* a return statement of processImage
Returned(pr, result) == [pr EXCEPT !.pc = "done", !.result = result]

\* { status: 'failed', error }
Failed(pr, error) ==
    Returned(pr, [NoResult EXCEPT !.status = "failed", !.error = error])

\* an insert error surfacing in the caller as a failure of the job
afterLogIngestEvent_Throws(pr, error) ==
    IF error /\ pr.pc # "done"
      THEN Failed(pr, Err("Failed to log ingest event", 0))
      ELSE pr

\* queries.ts 188-190: an insert error is logged, not thrown, so the caller
\* goes on as it was
afterLogIngestEvent(pr, error) == pr

\* await logIngestEvent(...) by task p
Emit(s, p, eventType, message, imageId, error) ==
    [s EXCEPT !.events[p] = logIngestEvent(@, eventType, message, imageId, error),
              !.logFaults = @ - (IF error THEN 1 ELSE 0),
              !.proc[p] = afterLogIngestEvent(@, error)]

B2N(b) == IF b THEN 1 ELSE 0

\* an injected error is spent when the call it fails is made
UseFault(s, used) == [s EXCEPT !.faults = @ - B2N(used)]

\* a catch block that returns failed without emitting the event
catch_Silent(s, p, message, logError) ==
    [s EXCEPT !.proc[p] = Failed(@, message)]

\* a catch block that also marks the image the job created as failed
catch_MarksFailed(s, p, message, logError) ==
    Emit([s EXCEPT !.proc[p] = Failed(@, message),
                   !.images = IF "image" \in s.proc[p].did
                                THEN [@ EXCEPT ![s.proc[p].imageId].status = "failed"]
                                ELSE @],
         p, "fetch_failed", message, 0, logError)

\* lines 268-279: the catch block emits fetch_failed and returns failed
catch(s, p, message, logError) ==
    Emit([s EXCEPT !.proc[p] = Failed(@, message)],
         p, "fetch_failed", message, 0, logError)

\* lines 35-40
startStep(s, p, job, le) ==
    Emit([s EXCEPT !.proc[p].pc = "resolve", !.proc[p].job = job],
         p, "fetch_started", Err(job.sourceUrl, 0), 0, le[1])

\* lines 43-60
\* a pipeline that turns away the jobs of a source that is not allowed
resolveStep_Allowed(s, p, idError, nameError) ==
    LET r == resolveSource(s.sources, s.proc[p].job, idError, nameError)
        pr == [s.proc[p] EXCEPT !.source = r.source, !.trustTier = r.trustTier,
                                !.sourceName = r.sourceName]
        s1 == UseFault(UseFault(s, idError), nameError)
    IN  IF r.source = None
          THEN [s1 EXCEPT !.proc[p] = [pr EXCEPT !.pc = "fetch"]]
        ELSE IF ~SourceRowIn(s.sources, r.source).isAllowed
          THEN [s1 EXCEPT !.proc[p] = Failed(pr, Err("Source not allowed", 0))]
          ELSE LET acq == rateCheck(s.sources, s.buckets, r.source, s.now)
               IN  [s1 EXCEPT
                      !.buckets = acq.buckets,
                      !.calls = Append(@, [sourceId |-> r.source, t |-> s.now,
                                           granted |-> acq.ok, by |-> p]),
                      !.proc[p] =
                         IF acq.ok
                           THEN [pr EXCEPT !.pc = "fetch"]
                           ELSE Returned(pr, [NoResult EXCEPT
                                  !.status = "rate_limited",
                                  !.error = Err("Rate limited, retry after ms",
                                                getWaitTime(acq.buckets, r.source))])]

resolveStep(s, p, idError, nameError) ==
    LET r == resolveSource(s.sources, s.proc[p].job, idError, nameError)
        pr == [s.proc[p] EXCEPT !.source = r.source, !.trustTier = r.trustTier,
                                !.sourceName = r.sourceName]
        s1 == UseFault(UseFault(s, idError), nameError)
    IN  IF r.source = None
          THEN [s1 EXCEPT !.proc[p] = [pr EXCEPT !.pc = "fetch"]]
          ELSE LET acq == rateCheck(s.sources, s.buckets, r.source, s.now)
               IN  [s1 EXCEPT
                      !.buckets = acq.buckets,
                      !.calls = Append(@, [sourceId |-> r.source, t |-> s.now,
                                           granted |-> acq.ok, by |-> p]),
                      !.proc[p] =
                         IF acq.ok
                           THEN [pr EXCEPT !.pc = "fetch"]
                           ELSE Returned(pr, [NoResult EXCEPT
                                  !.status = "rate_limited",
                                  !.error = Err("Rate limited, retry after ms",
                                                getWaitTime(acq.buckets, r.source))])]

\* lines 62-83
fetchStep(s, p, le) ==
    LET pr == [s.proc[p] EXCEPT !.did = @ \cup {"fetch"}]
        fetchResult == fetchImage(pr.job.sourceUrl, pr.sourceName)
    IN  IF ~fetchResult.ok \/ fetchResult.bytes = None
          THEN Emit([s EXCEPT !.proc[p] = Failed(pr, fetchResult.error)],
                    p, "fetch_failed", fetchResult.error, 0, le[1])
          ELSE Emit([s EXCEPT !.proc[p] =
                        [pr EXCEPT !.pc = "probe", !.bytes = fetchResult.bytes,
                                   !.sha256 = computeSha256(fetchResult.bytes)]],
                    p, "fetch_completed", NoError, 0, le[1])

\* lines 85-92
probeStep(s, p, error, le) ==
    LET pr == [s.proc[p] EXCEPT !.did = @ \cup {"probe"}]
        existing == findImageBySha256(s.images, pr.sha256, error)
        s1 == UseFault(s, error)
    IN  IF existing # 0
          THEN Emit([s1 EXCEPT !.proc[p] =
                        [pr EXCEPT !.pc = "dedupAssign", !.imageId = existing]],
                    p, "deduplicated", NoError, existing, le[1])
          ELSE [s1 EXCEPT !.proc[p] = [pr EXCEPT !.pc = "classify"]]

\* lines 94-103
dedupAssignStep(s, p, error, le) ==
    LET pr == s.proc[p]
        s1 == UseFault(s, error)
    IN  IF error
          THEN catch(s1, p, Err("Failed to assign image to card", 0), le[1])
          ELSE [s1 EXCEPT
                  !.cardImages = assignImageToCard(@, pr.job.cardId, pr.imageId,
                                    "primary_front", pr.source, pr.job.sourceUrl),
                  !.proc[p] = Returned([pr EXCEPT !.did = @ \cup {"assign"}],
                                 [NoResult EXCEPT !.status = "deduplicated",
                                    !.imageId = pr.imageId, !.sha256 = pr.sha256])]

\* lines 106-150: decode, side, collage, vision, validation_passed,
\* processing_started
classifyStep(s, p, random, reply, le) ==
    LET pr == s.proc[p]
        decodeResult == decodeImage(pr.bytes)
        heuristic == detectSide(pr.bytes, decodeResult.width, decodeResult.height)
        isCollage == detectCollage(pr.bytes)
        runVision == shouldRunVisionCheck(pr.trustTier, heuristic.confidence, random)
        sideResult == finalSide(heuristic, runVision, checkWithVision(reply))
    IN  IF ~decodeResult.ok
          THEN Emit([s EXCEPT !.proc[p] =
                        Failed([pr EXCEPT !.did = @ \cup {"decode"}], decodeResult.error)],
                    p, "validation_failed", decodeResult.error, 0, le[1])
          ELSE Emit(Emit([s EXCEPT !.proc[p] =
                        [pr EXCEPT !.pc = "create", !.width = decodeResult.width,
                                   !.sideResult = sideResult, !.isCollage = isCollage,
                                   !.did = @ \cup {"decode", "side", "collage"}
                                             \cup (IF runVision THEN {"vision"} ELSE {})]],
                         p, "validation_passed", NoError, 0, le[1]),
                    p, "processing_started", NoError, 0, le[2])

\* an insert that, refused by the unique index, looks the row up again and
\* ends the job as a deduplication
createStep_Requery(s, p, error, le) ==
    LET pr == s.proc[p]
        s1 == UseFault(s, error)
        existing == findImageBySha256(s.images, pr.sha256, FALSE)
    IN  IF error
          THEN catch(s1, p, Err("Failed to create image record", 0), le[1])
        ELSE IF Sha256Taken(s.images, pr.sha256)
          THEN [s1 EXCEPT
                  !.cardImages = assignImageToCard(@, pr.job.cardId, existing,
                                    "primary_front", pr.source, pr.job.sourceUrl),
                  !.proc[p] = Returned([pr EXCEPT !.imageId = existing,
                                                  !.did = @ \cup {"assign"}],
                                 [NoResult EXCEPT !.status = "deduplicated",
                                    !.imageId = existing, !.sha256 = pr.sha256])]
        ELSE [s1 EXCEPT
                !.images = createImageRecord(@, pr.sha256, pr.sideResult, pr.isCollage),
                !.proc[p] = [pr EXCEPT !.pc = "derive", !.imageId = Len(s.images) + 1,
                                       !.did = @ \cup {"image"}]]

\* lines 152-163
createStep(s, p, error, le) ==
    LET pr == s.proc[p]
        s1 == UseFault(s, error)
    IN  IF createImageRecordFails(s.images, pr.sha256, error)
          THEN catch(s1, p, Err("Failed to create image record", 0), le[1])
          ELSE [s1 EXCEPT
                  !.images = createImageRecord(@, pr.sha256, pr.sideResult, pr.isCollage),
                  !.proc[p] = [pr EXCEPT !.pc = "derive", !.imageId = Len(s.images) + 1,
                                         !.did = @ \cup {"image"}]]

\* lines 165-173
deriveStep(s, p, error, le) ==
    LET pr == s.proc[p]
        s1 == UseFault(s, error)
    IN  IF error
          THEN catch(s1, p, Err("derivative generation failed", 0), le[1])
          ELSE Emit([s1 EXCEPT !.proc[p] = [pr EXCEPT !.pc = "upload"]],
                    p, "derivatives_generated", Err("count", 3), pr.imageId, le[1])

\* the derivatives handled before the one at failAt fails (all when it is 0)
Before(failAt) == IF failAt = 0 THEN 1..3 ELSE 1..(failAt - 1)

\* an uploader that goes on to the remaining derivatives after a failure
uploadDerivatives_Continue(store, derivs, failAt) ==
    store \cup {derivs[i].storagePath : i \in (1..3) \ {failAt}}

\* storage/upload: the paths written when the upload of derivative failAt fails
uploadDerivatives(store, derivs, failAt) ==
    store \cup {derivs[i].storagePath : i \in Before(failAt)}

\* lines 175-182
uploadStep(s, p, failAt, le) ==
    LET pr == [s.proc[p] EXCEPT !.did = @ \cup (IF failAt = 1 THEN {} ELSE {"blob"})]
        derivs == generateDerivatives(pr.sha256, pr.width)
        s1 == [UseFault(s, failAt # 0) EXCEPT
                 !.blobs = uploadDerivatives(@, derivs, failAt),
                 !.proc[p] = pr]
    IN  IF failAt # 0
          THEN catch(s1, p, Err("Upload failed", 0), le[1])
          ELSE Emit([s1 EXCEPT !.proc[p].pc = "record"],
                    p, "upload_completed", NoError, pr.imageId, le[1])

\* lines 185-195: the rows inserted when the insert of derivative failAt fails
createDerivativeRecords(rows, imageId, derivs, failAt) ==
    rows \cup {[imageId |-> imageId, variant |-> derivs[i].variant,
                width |-> derivs[i].width, storagePath |-> derivs[i].storagePath] :
               i \in Before(failAt)}

recordStep(s, p, failAt, le) ==
    LET pr == [s.proc[p] EXCEPT !.did = @ \cup (IF failAt = 1 THEN {} ELSE {"deriv"})]
        derivs == generateDerivatives(pr.sha256, pr.width)
        s1 == [UseFault(s, failAt # 0) EXCEPT
                 !.derivatives = createDerivativeRecords(@, pr.imageId, derivs, failAt),
                 !.proc[p] = pr]
    IN  IF failAt # 0
          THEN catch(s1, p, Err("Failed to create derivative record", 0), le[1])
          ELSE [s1 EXCEPT !.proc[p].pc = "status"]

\* lines 197-205
statusStep(s, p, error, le) ==
    LET pr == s.proc[p]
    IN  Emit([UseFault(s, error) EXCEPT
                !.images = updateImageStatus(@, pr.imageId, "completed", error),
                !.proc[p].pc = "gate"],
             p, "processing_completed", NoError, pr.imageId, le[1])

\* lines 207-267
gateStep(s, p, error, le) ==
    LET pr == s.proc[p]
        done == [NoResult EXCEPT !.imageId = pr.imageId, !.sha256 = pr.sha256,
                    !.detectedSide = pr.sideResult.side,
                    !.confidence = pr.sideResult.confidence]
    IN  IF canAssign(pr.sideResult, pr.isCollage)
          THEN IF error
                 THEN catch(UseFault(s, error), p,
                            Err("Failed to assign image to card", 0), le[1])
                 ELSE Emit([s EXCEPT
                              !.cardImages = assignImageToCard(@, pr.job.cardId,
                                  pr.imageId, "primary_front", pr.source, pr.job.sourceUrl),
                              !.proc[p] = Returned([pr EXCEPT !.did = @ \cup {"assign"}],
                                              [done EXCEPT !.status = "completed"])],
                           p, "assigned", Err("primary_front", 0), pr.imageId, le[1])
          ELSE Emit([s EXCEPT !.proc[p] =
                        Returned(pr, [done EXCEPT !.status = "rejected",
                                                  !.error = Err("Not assigned", 0)])],
                    p, "rejected", Err("not assigned", 0), pr.imageId, le[1])

(* ------------------------------ the run -------------------------------- *)
\* The step from St to t is taken when every error drawn for it was spent:
\* `used` catalog or blob-store errors and the insert errors of le.
TakeHeard(t, used, le, heard) ==
    /\ t.faults = faults - used
    /\ t.faults >= 0
    /\ t.logFaults = logFaults - Count(le)
    /\ Apply(t)
    /\ pool' = pool
    /\ UNCHANGED <<http, fetches, sweepAt, waits>>
    /\ replies' = heard

Take(t, used, le) == TakeHeard(t, used, le, replies)

\* the answer of the vision model to task p, kept when the step asked for it
Heard(t, p, reply) ==
    IF replies.on /\ "vision" \in t.proc[p].did
      THEN [replies EXCEPT !.of[p] = reply]
      ELSE replies

\* how the sha256 lookup of task p went: answered, or an error reported
\* while the catalog held a row with the sha256 ("held") or held none ("new")
Looked(p, error) ==
    IF replies.onLookup
      THEN [replies EXCEPT !.lookup[p] =
                IF ~error THEN "answered"
                ELSE IF Sha256Taken(images, proc[p].sha256) THEN "held"
                ELSE "new"]
      ELSE replies

\* the twin takes the same step, at the same position, with no insert error
Twin(p, pc, tw) ==
    twin' = IF twin.on /\ twin.st.proc[p].pc = pc
              THEN [twin EXCEPT !.st = tw]
              ELSE twin

Start(p) ==
    /\ proc[p].pc = "idle"
    /\ \E job \in pool, le \in LogErrs :
        /\ Take(startStep(St, p, job, le), 0, le)
        /\ Twin(p, "idle", startStep(twin.st, p, job, NoLogErr))

Resolve(p) ==
    /\ proc[p].pc = "resolve"
    /\ \E idError \in FaultChoices, nameError \in FaultChoices :
        LET job == proc[p].job
            byNameCalled == job.sourceName # None
                /\ (job.sourceId = None
                        \/ getImageSource(ImageSources, job.sourceId, idError) = None)
        IN  /\ idError => job.sourceId # None
            /\ nameError => byNameCalled
            /\ Take(resolveStep(St, p, idError, nameError),
                    B2N(idError) + B2N(nameError), NoLogErr)
            /\ Twin(p, "resolve", resolveStep(twin.st, p, idError, nameError))

Fetch(p) ==
    /\ proc[p].pc = "fetch"
    /\ \E le \in LogErrs :
        /\ Take(fetchStep(St, p, le), 0, le)
        /\ Twin(p, "fetch", fetchStep(twin.st, p, NoLogErr))

Probe(p) ==
    /\ proc[p].pc = "probe"
    /\ \E error \in FaultChoices, le \in LogErrs :
        /\ TakeHeard(probeStep(St, p, error, le), B2N(error), le, Looked(p, error))
        /\ Twin(p, "probe", probeStep(twin.st, p, error, NoLogErr))

DedupAssign(p) ==
    /\ proc[p].pc = "dedupAssign"
    /\ \E error \in FaultChoices, le \in LogErrs :
        /\ Take(dedupAssignStep(St, p, error, le), B2N(error), le)
        /\ Twin(p, "dedupAssign", dedupAssignStep(twin.st, p, error, NoLogErr))

Classify(p) ==
    /\ proc[p].pc = "classify"
    /\ \E le \in LogErrs, random \in Randoms, reply \in VisionReplies :
        /\ TakeHeard(classifyStep(St, p, random, reply, le), 0, le,
                     Heard(classifyStep(St, p, random, reply, le), p, reply))
        /\ Twin(p, "classify", classifyStep(twin.st, p, random, reply, NoLogErr))

Create(p) ==
    /\ proc[p].pc = "create"
    /\ \E error \in FaultChoices, le \in LogErrs :
        /\ Take(createStep(St, p, error, le), B2N(error), le)
        /\ Twin(p, "create", createStep(twin.st, p, error, NoLogErr))

Derive(p) ==
    /\ proc[p].pc = "derive"
    /\ \E error \in FaultChoices, le \in LogErrs :
        /\ Take(deriveStep(St, p, error, le), B2N(error), le)
        /\ Twin(p, "derive", deriveStep(twin.st, p, error, NoLogErr))

Upload(p) ==
    /\ proc[p].pc = "upload"
    /\ \E failAt \in FailAtChoices, le \in LogErrs :
        /\ Take(uploadStep(St, p, failAt, le), B2N(failAt # 0), le)
        /\ Twin(p, "upload", uploadStep(twin.st, p, failAt, NoLogErr))

Record(p) ==
    /\ proc[p].pc = "record"
    /\ \E failAt \in FailAtChoices, le \in LogErrs :
        /\ Take(recordStep(St, p, failAt, le), B2N(failAt # 0), le)
        /\ Twin(p, "record", recordStep(twin.st, p, failAt, NoLogErr))

Status(p) ==
    /\ proc[p].pc = "status"
    /\ \E error \in FaultChoices, le \in LogErrs :
        /\ Take(statusStep(St, p, error, le), B2N(error), le)
        /\ Twin(p, "status", statusStep(twin.st, p, error, NoLogErr))

Gate(p) ==
    /\ proc[p].pc = "gate"
    /\ \E error \in FaultChoices, le \in LogErrs :
        /\ Take(gateStep(St, p, error, le), B2N(error), le)
        /\ Twin(p, "gate", gateStep(twin.st, p, error, NoLogErr))

\* time passes
\* The clock is read only by the rate check, so its advance is observed only
\* by a task about to make one.
Advance ==
    /\ now + TickMs <= MaxNow
    /\ now' = now + TickMs
    /\ twin' = IF twin.on THEN [twin EXCEPT !.st.now = now + TickMs] ELSE twin
    /\ UNCHANGED <<buckets, calls, images, derivatives, cardImages, blobs, events,
                   proc, pool, faults, logFaults, http, fetches, sweepAt, waits,
                   replies>>

Tick ==
    /\ \E p \in Procs : proc[p].pc = "resolve"
    /\ Advance

\* one step of task p
Step(p) ==
    \/ Start(p)
    \/ Resolve(p)
    \/ Fetch(p)
    \/ Probe(p)
    \/ DedupAssign(p)
    \/ Classify(p)
    \/ Create(p)
    \/ Derive(p)
    \/ Upload(p)
    \/ Record(p)
    \/ Status(p)
    \/ Gate(p)

\* Two tasks interleaved at their suspension points, the clock standing still
\* (jobs arriving back to back), catalog and blob-store errors injected.
Next == \E p \in Workers : Step(p)

Spec == Init /\ [][Next]_vars

\* Three tasks on rate-limited sources while the clock advances.
ClockJobs ==
    { Job("c1", "u_front", "s1", None, 0),
      Job("c2", "u_404", "s1", None, 0),
      Job("c1", "u_404", None, "tcgplayer", 0) }

InitClock ==
    /\ Start_(FreshSt, 0, 0)
    /\ pool = ClockJobs
    /\ twin = [on |-> FALSE, st |-> FreshSt]
    /\ Loaded(FALSE)

NextClock == Tick \/ \E p \in Procs : Step(p)

SpecClock == InitClock /\ [][NextClock]_vars

\* Two tasks whose logIngestEvent inserts may fail, run beside their twin;
\* the catalog and the blob store report no error of their own, and the catch
\* block is reached through the unique index.
LogJobs ==
    { Job("c1", "u_front", "s1", None, 0),
      Job("c2", "u_front", "s1", None, 0),
      Job("c1", "u_back", None, "tcgplayer", 0),
      Job("c1", "u_nodims", None, None, 0),
      Job("c2", "u_404", None, None, 0) }

InitLog ==
    /\ \E s \in {FreshSt, SeededSt} :
        /\ Start_(s, 0, MaxLogFaults)
        /\ twin = [on |-> TRUE, st |-> s]
    /\ pool = LogJobs
    /\ Loaded(FALSE)

SpecLog == InitLog /\ [][Next]_vars

\* Two tasks whose jobs name their source by id, by name, by both or not at
\* all, and carry a trust tier of their own or none; lookups may fail.
SourceJobs ==
    { Job("c1", "u_front", "s1", "tcgplayer", 3),
      Job("c2", "u_front80", "s9", "tcgplayer", 0),
      Job("c1", "u_max", None, None, 0),
      Job("c2", "u_collage", None, "nobody", 2),
      Job("c1", "u_tiny", "s3", None, 1),
      Job("c2", "u_big", None, None, 1),
      Job("c1", "u_back", "s2", None, 0) }

InitSources ==
    /\ Start_(FreshSt, MaxFaults, 0)
    /\ pool = SourceJobs
    /\ twin = [on |-> FALSE, st |-> FreshSt]
    /\ Loaded(FALSE)

SpecSources == InitSources /\ [][Next]_vars

\* Two tasks of tier 2 or 3 whose vision answers are kept; the catalog and
\* the blob store report no error.
VisionJobs ==
    { Job("c1", "u_front", "s3", None, 0),
      Job("c2", "u_front", "s3", None, 0),
      Job("c2", "u_front80", "s2", None, 0),
      Job("c1", "u_max", "s3", None, 0),
      Job("c2", "u_back", None, None, 0),
      Job("c1", "u_tiny", None, None, 2),
      Job("c2", "u_collage", "s3", None, 0) }

InitVision ==
    /\ Start_(FreshSt, 0, 0)
    /\ pool = VisionJobs
    /\ twin = [on |-> FALSE, st |-> FreshSt]
    /\ Loaded(TRUE)

SpecVision == InitVision /\ [][Next]_vars

\* Two tasks, catalog and blob-store errors injected, the outcomes of the
\* sha256 lookup kept.
LookupJobs ==
    { Job("c1", "u_front", "s1", None, 0),
      Job("c2", "u_front", "s1", None, 0),
      Job("c2", "u_collage", None, None, 0),
      Job("c1", "u_huge", "s1", None, 0) }

InitLookup ==
    /\ Start_(FreshSt, MaxFaults, 0)
    /\ pool = LookupJobs
    /\ twin = [on |-> FALSE, st |-> FreshSt]
    /\ LoadedWith([NoReplies(FALSE) EXCEPT !.onLookup = TRUE])

SpecLookup == InitLookup /\ [][Next]_vars

\* Two tasks run beside their twin, whose image_sources rows differ from the
\* catalog's in isAllowed, in maxConcurrency or in both; the two runs take the
\* same steps and meet the same catalog and blob-store errors.
FieldJobs ==
    { Job("c1", "u_front", "s3", None, 0),
      Job("c2", "u_front", "s1", None, 0),
      Job("c2", "u_collage", "s2", None, 0),
      Job("c1", "u_404", None, "scraper", 0) }

OtherFields(flip, add) ==
    { [s EXCEPT !.isAllowed = IF flip THEN ~@ ELSE @,
                !.maxConcurrency = @ + add] : s \in ImageSources }

FieldTables == { OtherFields(TRUE, 0), OtherFields(FALSE, 1), OtherFields(TRUE, 1) }

InitFields ==
    /\ Start_(FreshSt, MaxFaults, 0)
    /\ pool = FieldJobs
    /\ \E srcs \in FieldTables :
          twin = [on |-> TRUE,
                  st |-> [FreshSt EXCEPT !.sources = srcs, !.faults = MaxFaults]]
    /\ Loaded(FALSE)

SpecFields == InitFields /\ [][Next]_vars

(* --------------------------- the limiter alone ------------------------- *)
\* tryAcquire called directly on buckets installed once, at start-up, for s1
\* (maxRps 1) and s2 (maxRps 2); s3 has no bucket.
LimiterSt ==
    [FreshSt EXCEPT !.buckets = initBucket(initBucket(<< >>, "s1", 1, 0), "s2", 2, 0)]

Acquire(sourceId) ==
    /\ Len(calls) < MaxCalls
    /\ LET acq == tryAcquire(buckets, sourceId, now)
       IN  /\ buckets' = acq.buckets
           /\ calls' = Append(calls, [sourceId |-> sourceId, t |-> now,
                                      granted |-> acq.ok, by |-> None])
    /\ UNCHANGED <<now, images, derivatives, cardImages, blobs, events, proc,
                   faults, logFaults, pool, twin, http, fetches, sweepAt, waits,
                   replies>>

InitLimiter ==
    /\ Start_(LimiterSt, 0, 0)
    /\ pool = {}
    /\ twin = [on |-> FALSE, st |-> FreshSt]
    /\ Loaded(FALSE)

NextLimiter == Advance \/ \E sourceId \in SourceIds : Acquire(sourceId)

SpecLimiter == InitLimiter /\ [][NextLimiter]_vars

(* ------------------------------ long runs ------------------------------ *)
\* the moments at which a timer is due: the sweeper's interval and the abort
\* timers of the fetches
DueTimes ==
    {sweepAt} \cup {fetches[p].deadline : p \in {q \in Procs : fetches[q].armed}}

MinOf(S) == CHOOSE x \in S : \A y \in S : x <= y

\* Time passes up to the next tick or the next due timer, whichever is first;
\* a timer that is due runs before time passes on.
LongAdvance ==
    /\ \A d \in DueTimes : d > now
    /\ MinOf(DueTimes \cup {now + LongTickMs}) <= MaxLongNow
    /\ now' = MinOf(DueTimes \cup {now + LongTickMs})
    /\ UNCHANGED <<buckets, calls, images, derivatives, cardImages, blobs, events,
                   proc, pool, faults, logFaults, twin, http, fetches, sweepAt,
                   waits, replies>>

\* a sweeper that also removes a bucket refilled exactly 60 s ago
sweep_Inclusive(b, t) ==
    [k \in {x \in DOMAIN b : ~(t - b[x].lastRefill >= CACHE_DURATION_MS)} |-> b[k]]

\* rate-limit.ts 57-64, the body of the setInterval callback
sweep(b, t) ==
    [k \in {x \in DOMAIN b : ~(t - b[x].lastRefill > CACHE_DURATION_MS)} |-> b[k]]

Sweep ==
    /\ now >= sweepAt
    /\ buckets' = sweep(buckets, now)
    /\ sweepAt' = sweepAt + CACHE_DURATION_MS
    /\ UNCHANGED <<now, calls, images, derivatives, cardImages, blobs, events,
                   proc, pool, faults, logFaults, twin, http, fetches, waits,
                   replies>>

(* ----------------------- the limiter over a long run ------------------- *)
\* getWaitTime called directly; its answer is kept
WaitTime(sourceId) ==
    /\ waits' = [sourceId |-> sourceId, ms |-> getWaitTime(buckets, sourceId)]
    /\ UNCHANGED <<now, buckets, calls, images, derivatives, cardImages, blobs,
                   events, proc, pool, faults, logFaults, twin, http, fetches,
                   sweepAt, replies>>

\* The buckets of s1 and s2 installed at start-up, tryAcquire and getWaitTime
\* called directly, the sweeper running every 60 s.
InitSweep ==
    /\ Start_(LimiterSt, 0, 0)
    /\ pool = {}
    /\ twin = [on |-> FALSE, st |-> FreshSt]
    /\ Loaded(FALSE)

NextSweep ==
    \/ LongAdvance
    \/ Sweep
    \/ \E sourceId \in SourceIds : Acquire(sourceId) \/ WaitTime(sourceId)

SpecSweep == InitSweep /\ [][NextSweep]_vars

(* --------------------------- fetchImage in time ------------------------ *)
\* fetchImage between its suspension points: the await of fetch(), settled
\* when the response headers arrive, and the await of arrayBuffer(), settled
\* when the body has arrived.
FetchUrls == {"u_front", "u_404", "u_html", "u_down", "u_errpay"}
FetchNames == {"pokemontcg_api", "unknown"}

Fetching(p) == fetches[p].phase \in {"headers", "body"}

\* the response is decided by its headers: fetch() rejected, or lines 36-51
ReturnsAtHeaders(url) ==
    \/ Responses[url].net = "error"
    \/ ~(Responses[url].status >= 200 /\ Responses[url].status <= 299)
    \/ Responses[url].contentType[1] # "image"

FetchOnly(p, f) ==
    /\ fetches' = [fetches EXCEPT ![p] = f]
    /\ UNCHANGED <<now, buckets, calls, images, derivatives, cardImages, blobs,
                   events, proc, pool, faults, logFaults, twin, http, sweepAt,
                   waits, replies>>

\* lines 23-32: the controller, the timer and the request
FetchCall(p) ==
    /\ fetches[p].phase = "none"
    /\ \E url \in FetchUrls, sourceName \in FetchNames :
          FetchOnly(p, [NoFetch EXCEPT !.phase = "headers", !.url = url,
                                       !.sourceName = sourceName,
                                       !.deadline = now + FETCH_TIMEOUT_MS,
                                       !.armed = TRUE])

\* the await of line 26 settles: a rejection goes to the catch block with the
\* timer left running; a response clears the timer (line 34)
Headers(p) ==
    /\ fetches[p].phase = "headers"
    /\ LET f == fetches[p]
       IN  IF Responses[f.url].net = "error"
             THEN FetchOnly(p, [f EXCEPT !.phase = "done",
                                         !.result = fetchImage(f.url, f.sourceName)])
           ELSE IF ReturnsAtHeaders(f.url)
             THEN FetchOnly(p, [f EXCEPT !.phase = "done", !.armed = FALSE,
                                         !.result = fetchImage(f.url, f.sourceName)])
           ELSE FetchOnly(p, [f EXCEPT !.phase = "body", !.armed = FALSE])

\* the await of line 53 settles: lines 55-69
Body(p) ==
    /\ fetches[p].phase = "body"
    /\ FetchOnly(p, [fetches[p] EXCEPT !.phase = "done",
                        !.result = fetchImage(fetches[p].url, fetches[p].sourceName)])

\* line 24, the timer's callback: controller.abort() rejects the pending
\* await, and the catch block returns the failure
Timeout(p) ==
    /\ fetches[p].armed
    /\ now >= fetches[p].deadline
    /\ IF Fetching(p)
         THEN FetchOnly(p, [fetches[p] EXCEPT !.armed = FALSE, !.phase = "done",
                 !.result = FetchFail(Err("This operation was aborted", 0), 0)])
         ELSE FetchOnly(p, [fetches[p] EXCEPT !.armed = FALSE])

InitFetch ==
    /\ Start_(FreshSt, 0, 0)
    /\ pool = {}
    /\ twin = [on |-> FALSE, st |-> FreshSt]
    /\ Loaded(FALSE)

NextFetch ==
    \/ LongAdvance
    \/ Sweep
    \/ \E p \in Workers : FetchCall(p) \/ Headers(p) \/ Body(p) \/ Timeout(p)

SpecFetch == InitFetch /\ [][NextFetch]_vars

(* --------------------------- the HTTP handlers ------------------------- *)
\* What processImage may hand back to a handler: one result of each status
\* of the ProcessResult type.
ProcessResults ==
    { [NoResult EXCEPT !.status = "completed", !.imageId = 1, !.sha256 = SeedSha,
                       !.detectedSide = "front", !.confidence = 9500],
      [NoResult EXCEPT !.status = "rejected", !.imageId = 1, !.sha256 = SeedSha,
                       !.detectedSide = "back", !.confidence = 8999,
                       !.error = Err("Not assigned", 0)],
      [NoResult EXCEPT !.status = "deduplicated", !.imageId = 1, !.sha256 = SeedSha],
      [NoResult EXCEPT !.status = "failed", !.error = Err("HTTP", 404)],
      [NoResult EXCEPT !.status = "rate_limited",
                       !.error = Err("Rate limited, retry after ms", 1000)] }

Answer(endpoint, status, error) ==
    [endpoint |-> endpoint, ran |-> FALSE, status |-> status, body |-> NoResult,
     error |-> error]

AnswerResult(endpoint, status, result) ==
    [endpoint |-> endpoint, ran |-> TRUE, status |-> status, body |-> result,
     error |-> NoError]

\* POST /webhook/qstash; result is what the awaited processImage returns
qstashHandler(signature, jobOk, result) ==
    IF signature = "missing"
      THEN Answer("/webhook/qstash", 401, Err("Missing signature", 0))
    ELSE IF signature = "throws"
      THEN Answer("/webhook/qstash", 500, Err("Unknown error", 0))
    ELSE IF signature = "invalid"
      THEN Answer("/webhook/qstash", 401, Err("Invalid signature", 0))
    ELSE IF ~jobOk
      THEN Answer("/webhook/qstash", 400, Err("Missing cardId or sourceUrl", 0))
    ELSE IF result.status = "rate_limited"
      THEN AnswerResult("/webhook/qstash", 429, result)
    ELSE AnswerResult("/webhook/qstash", 200, result)

\* POST /process
processHandler(authorization, jobOk, result) ==
    IF authorization = "missing"
      THEN Answer("/process", 401, Err("Missing authorization", 0))
    ELSE IF authorization = "wrong"
      THEN Answer("/process", 403, Err("Invalid token", 0))
    ELSE IF ~jobOk
      THEN Answer("/process", 400, Err("Missing cardId or sourceUrl", 0))
    ELSE AnswerResult("/process", 200, result)

\* the response is sent
Exchange(p, answer) ==
    /\ http' = [http EXCEPT ![p] = answer]
    /\ UNCHANGED <<now, buckets, calls, images, derivatives, cardImages, blobs,
                   events, proc, faults, logFaults, pool, twin, fetches, sweepAt,
                   waits, replies>>

Webhook(p) ==
    /\ http[p].status = 0
    /\ \E signature \in {"missing", "throws", "invalid", "valid"},
          jobOk \in BOOLEAN, result \in ProcessResults :
            Exchange(p, qstashHandler(signature, jobOk, result))

Process(p) ==
    /\ http[p].status = 0
    /\ \E authorization \in {"missing", "wrong", "valid"},
          jobOk \in BOOLEAN, result \in ProcessResults :
            Exchange(p, processHandler(authorization, jobOk, result))

\* The handlers as functions of the request and of the result handed back.
InitHttp ==
    /\ Start_(FreshSt, 0, 0)
    /\ pool = {}
    /\ twin = [on |-> FALSE, st |-> FreshSt]
    /\ Loaded(FALSE)

NextHttp == \E p \in Procs : Webhook(p) \/ Process(p)

SpecHttp == InitHttp /\ [][NextHttp]_vars

(* ------------------------------ properties ----------------------------- *)
Done(p) == proc[p].pc = "done"
StatusOf(p) == proc[p].result.status
Last(seq) == seq[Len(seq)]
EventTypes(p) == [i \in 1..Len(events[p]) |-> events[p][i].eventType]
HasEvent(p, eventType) == \E i \in 1..Len(events[p]) : events[p][i].eventType = eventType
IsPrefix(a, b) == Len(a) <= Len(b) /\ \A i \in 1..Len(a) : a[i] = b[i]
\* the catalog and blob-store writes task p has made
Writes(p) == proc[p].did \cap {"image", "deriv", "blob", "assign"}
\* the image rows carrying a digest, and those among them no task created
RowsWith(sha256) == {i \in 1..Len(images) : images[i].sha256 = sha256}
CreatedBy(p) == IF "image" \in proc[p].did THEN {proc[p].imageId} ELSE {}
PriorRows(sha256) == RowsWith(sha256) \ UNION {CreatedBy(r) : r \in Procs}
\* the card_images row task p asks for
AssignedRow(p) ==
    [cardId |-> proc[p].job.cardId, imageId |-> proc[p].imageId,
     role |-> "primary_front", sourceId |-> proc[p].source,
     sourceUrl |-> proc[p].job.sourceUrl]

\* C1: for a source with maxRps = N, a rate check made when N earlier checks of
\* that source were granted less than 1000/N ms before (so that no refill is
\* due) is denied: the job returns rate_limited and fetches nothing, and for
\* N = 1 its error is "Rate limited, retry after 1000ms".
C1_SecondCallDenied ==
    \A k \in 1..Len(calls) :
        LET c == calls[k]
            N == SourceRow(c.sourceId).maxRps
            recent == {j \in 1..(k - 1) :
                          /\ calls[j].sourceId = c.sourceId
                          /\ calls[j].granted
                          /\ (c.t - calls[j].t) * N < 1000}
        IN  Cardinality(recent) >= N =>
                /\ ~c.granted
                /\ Done(c.by)
                /\ StatusOf(c.by) = "rate_limited"
                /\ "fetch" \notin proc[c.by].did
                /\ N = 1 => proc[c.by].result.error
                               = Err("Rate limited, retry after ms", 1000)

\* two finished runs that fetched identical bytes
SameBytes(p, q) ==
    /\ p # q
    /\ Done(p) /\ Done(q)
    /\ proc[p].bytes # None
    /\ proc[p].bytes = proc[q].bytes

\* C2 as stated: two runs on identical bytes leave at most one image row of
\* that digest, and return completed and deduplicated, or deduplicated twice
\* when a row of that digest existed before both.
C2_CompletedPlusDeduplicated ==
    \A p, q \in Procs :
        SameBytes(p, q) =>
            /\ Cardinality(RowsWith(proc[p].sha256)) <= 1
            /\ \/ {StatusOf(p), StatusOf(q)} = {"completed", "deduplicated"}
               \/ /\ StatusOf(p) = "deduplicated"
                  /\ StatusOf(q) = "deduplicated"
                  /\ PriorRows(proc[p].sha256) # {}

\* C2, amended: no two image rows ever carry the same sha256; of two runs on
\* identical bytes at most one creates the row, and it returns completed,
\* rejected or failed; a run that creates none returns deduplicated, with the
\* id of the one row of that digest, or failed; and when a row of that digest
\* existed before both runs neither creates one.
C2_OneRowPerDigest ==
    /\ \A i, j \in 1..Len(images) : images[i].sha256 = images[j].sha256 => i = j
    /\ \A p, q \in Procs :
        SameBytes(p, q) =>
            /\ CreatedBy(p) = {} \/ CreatedBy(q) = {}
            /\ PriorRows(proc[p].sha256) # {} => CreatedBy(p) = {}
            /\ IF CreatedBy(p) # {}
                 THEN /\ StatusOf(p) \in {"completed", "rejected", "failed"}
                      /\ CreatedBy(p) = RowsWith(proc[p].sha256)
                 ELSE /\ StatusOf(p) \in {"deduplicated", "failed"}
                      /\ StatusOf(p) = "deduplicated"
                            => RowsWith(proc[p].sha256) = {proc[p].result.imageId}

\* two runs passed the dedup probe before either inserted: one completed, the
\* other lost the insert, with no injected error
C2_RaceWitness ==
    \E p, q \in Procs :
        /\ SameBytes(p, q)
        /\ StatusOf(p) = "completed"
        /\ StatusOf(q) = "failed"
        /\ proc[q].result.error = Err("Failed to create image record", 0)
        /\ faults = MaxFaults

\* the assignment gate, on the side result and collage flag of a task
GateOpen(pr) ==
    /\ pr.sideResult.side = "front"
    /\ pr.sideResult.confidence >= 8500
    /\ ~pr.isCollage

\* C3: a task that did not deduplicate returns completed, and writes a
\* card_images row, only at the gate and only when the final side is front,
\* the final confidence at least 0.85 and the image no collage (it then
\* returns completed with its row written, or failed when the upsert throws);
\* in every other case at the gate it returns rejected and card_images is
\* left as it was.
C3_AssignmentGate ==
    [][\A p \in Procs :
        LET pr == proc[p]
            nx == proc'[p]
        IN  /\ (pr.pc = "gate" /\ nx.pc = "done") =>
                  IF GateOpen(pr)
                    THEN \/ /\ nx.result.status = "completed"
                            /\ AssignedRow(p) \in cardImages'
                         \/ /\ nx.result.status = "failed"
                            /\ cardImages' = cardImages
                    ELSE /\ nx.result.status = "rejected"
                         /\ cardImages' = cardImages
            /\ (pr.pc # "done" /\ nx.pc = "done" /\ nx.result.status = "completed") =>
                  pr.pc = "gate" /\ GateOpen(pr)
            /\ (pr.pc # "dedupAssign" /\ nx # pr /\ cardImages' # cardImages) =>
                  pr.pc = "gate" /\ GateOpen(pr)
      ]_vars

\* one task passed the gate and another was turned away at it
C3_BothOutcomes ==
    \E p, q \in Procs :
        /\ Done(p) /\ StatusOf(p) = "completed" /\ "assign" \in proc[p].did
        /\ Done(q) /\ StatusOf(q) = "rejected" /\ "assign" \notin proc[q].did

\* C4 as stated: a task whose dedup probe found an image returns
\* {deduplicated, imageId of that image, sha256} with its card_images row
\* upserted, and creates no image row, derivative row or upload.
C4_HitAlwaysDeduplicated ==
    \A p \in Procs :
        (Done(p) /\ HasEvent(p, "deduplicated")) =>
            /\ proc[p].result = [NoResult EXCEPT !.status = "deduplicated",
                                    !.imageId = proc[p].imageId,
                                    !.sha256 = proc[p].sha256]
            /\ Writes(p) = {"assign"}

\* C4, amended: when the probe finds a row (as it does whenever one exists
\* and the lookup reports no error) the task emits deduplicated naming that
\* row and writes nothing; its next step upserts (cardId, primary_front) to
\* that row whatever the row's side, confidence, collage flag and status, so
\* that it is the card's only primary_front row and the other cards' rows
\* stay, and returns {deduplicated, imageId, sha256} with no further event;
\* only when the upsert reports an error does the task instead emit
\* fetch_failed and return failed with card_images untouched.  Neither step
\* touches images, derivatives or the blob store.
C4_DedupAssigns ==
    [][\A p \in Procs :
        LET pr == proc[p]
            nx == proc'[p]
            hits == RowsWith(pr.sha256)
        IN  /\ (pr.pc = "probe" /\ nx.pc = "dedupAssign") =>
                  /\ nx.imageId \in hits
                  /\ Len(events'[p]) = Len(events[p]) + 1
                  /\ Last(events'[p]).eventType = "deduplicated"
                  /\ Last(events'[p]).imageId = nx.imageId
                  /\ UNCHANGED <<images, derivatives, blobs, cardImages>>
            /\ (pr.pc = "probe" /\ nx.pc = "classify") =>
                  hits = {} \/ faults' < faults
            /\ (pr.pc = "dedupAssign" /\ nx # pr) =>
                  /\ nx.pc = "done"
                  /\ UNCHANGED <<images, derivatives, blobs>>
                  /\ IF faults' = faults
                       THEN /\ nx.result = [NoResult EXCEPT !.status = "deduplicated",
                                               !.imageId = pr.imageId,
                                               !.sha256 = pr.sha256]
                            /\ AssignedRow(p) \in cardImages'
                            /\ \A r \in cardImages' :
                                  (r.cardId = pr.job.cardId /\ r.role = "primary_front")
                                      => r = AssignedRow(p)
                            /\ \A r \in cardImages :
                                  r.cardId # pr.job.cardId => r \in cardImages'
                            /\ events'[p] = events[p]
                       ELSE /\ nx.result.status = "failed"
                            /\ cardImages' = cardImages
                            /\ Last(events'[p]).eventType = "fetch_failed"
      ]_vars

\* a task deduplicated onto, and assigned, an image stored as a back and
\* still in processing
C4_NonFrontWitness ==
    \E p \in Procs :
        /\ Done(p) /\ StatusOf(p) = "deduplicated"
        /\ images[proc[p].result.imageId].detectedSide = "back"
        /\ images[proc[p].result.imageId].status = "processing"
        /\ AssignedRow(p) \in cardImages

\* the stages of a new image, by the events they emit
MainPath ==
    <<"fetch_started", "fetch_completed", "validation_passed",
      "processing_started", "derivatives_generated", "upload_completed",
      "processing_completed">>

\* the complete event sequences the statement of C5 allows
StatedPaths ==
    {MainPath \o <<"assigned">>, MainPath \o <<"rejected">>,
     <<"fetch_started", "fetch_completed", "deduplicated">>,
     <<"fetch_started", "fetch_completed", "validation_failed">>}
        \cup {SubSeq(MainPath, 1, n) \o <<"fetch_failed">> : n \in 1..Len(MainPath)}

\* C5 as stated: the events of a job are a prefix of the main path ending in
\* assigned or rejected, or of a prefix of the main path ending in
\* fetch_failed, or of fetch_started, fetch_completed and then deduplicated
\* or validation_failed.
C5_StatedPathsOnly ==
    \A p \in Procs : \E path \in StatedPaths : IsPrefix(EventTypes(p), path)

\* the ending the statement leaves out: the upsert after deduplicated failed
EventPaths ==
    StatedPaths
        \cup {<<"fetch_started", "fetch_completed", "deduplicated", "fetch_failed">>}

\* the events of task p the catalog stored
Stored(p) == SelectSeq(events[p], LAMBDA e : e.stored)

\* C5, amended: the events a job emits are, at every moment, a prefix of one
\* of the stated paths or of fetch_started, fetch_completed, deduplicated,
\* fetch_failed; a finished job has emitted a whole path, ending in the event
\* of its result (assigned for completed, rejected for rejected, deduplicated
\* for deduplicated, fetch_failed or validation_failed for failed, and
\* fetch_started alone for rate_limited); assigned, rejected, fetch_failed and
\* validation_failed are never followed by another event.
C5_EventOrder ==
    \A p \in Procs :
        /\ \E path \in EventPaths : IsPrefix(EventTypes(p), path)
        /\ \A i \in 1..Len(events[p]) :
              events[p][i].eventType \in {"assigned", "rejected", "fetch_failed",
                                          "validation_failed"} => i = Len(events[p])
        /\ Done(p) =>
              CASE StatusOf(p) = "completed" ->
                       EventTypes(p) = MainPath \o <<"assigned">>
                [] StatusOf(p) = "rejected" ->
                       EventTypes(p) = MainPath \o <<"rejected">>
                [] StatusOf(p) = "deduplicated" ->
                       EventTypes(p) = <<"fetch_started", "fetch_completed", "deduplicated">>
                [] StatusOf(p) = "failed" ->
                       /\ EventTypes(p) \in EventPaths
                       /\ Last(EventTypes(p)) \in {"fetch_failed", "validation_failed"}
                [] OTHER -> EventTypes(p) = <<"fetch_started">>

\* a job that deduplicated and then failed in the upsert, beside a job that
\* ran the whole main path
C5_PathsWitness ==
    \E p, q \in Procs :
        /\ Done(p)
        /\ EventTypes(p) = <<"fetch_started", "fetch_completed", "deduplicated", "fetch_failed">>
        /\ Done(q)
        /\ StatusOf(q) \in {"completed", "rejected"}
        /\ Len(events[q]) = Len(MainPath) + 1

Statuses == {"completed", "failed", "deduplicated", "rejected", "rate_limited"}

\* the positions whose catalog or blob-store call throws on an error
ThrowingStages == {"dedupAssign", "create", "derive", "upload", "record", "gate"}

\* how far a call has come
Rank(pc) ==
    CASE pc = "idle" -> 0
      [] pc = "resolve" -> 1
      [] pc = "fetch" -> 2
      [] pc = "probe" -> 3
      [] pc \in {"dedupAssign", "classify"} -> 4
      [] pc = "create" -> 5
      [] pc = "derive" -> 6
      [] pc = "upload" -> 7
      [] pc = "record" -> 8
      [] pc = "status" -> 9
      [] pc = "gate" -> 10
      [] OTHER -> 11

\* the state after the step of task p in which no error is injected
ErrorFree(s, p) ==
    LET pc == s.proc[p].pc
    IN  CASE pc = "resolve" -> resolveStep(s, p, FALSE, FALSE)
          [] pc = "fetch" -> fetchStep(s, p, NoLogErr)
          [] pc = "probe" -> probeStep(s, p, FALSE, NoLogErr)
          [] pc = "dedupAssign" -> dedupAssignStep(s, p, FALSE, NoLogErr)
          [] pc = "classify" -> classifyStep(s, p, 5000, {}, NoLogErr)
          [] pc = "create" -> createStep(s, p, FALSE, NoLogErr)
          [] pc = "derive" -> deriveStep(s, p, FALSE, NoLogErr)
          [] pc = "upload" -> uploadStep(s, p, 0, NoLogErr)
          [] pc = "record" -> recordStep(s, p, 0, NoLogErr)
          [] pc = "status" -> statusStep(s, p, FALSE, NoLogErr)
          [] pc = "gate" -> gateStep(s, p, FALSE, NoLogErr)
          [] OTHER -> s

\* a started call that has not returned can take a step, one that spends no
\* injected error
CanGoOn(p) ==
    proc[p].pc \notin {"idle", "done"} =>
        /\ ErrorFree(St, p).proc[p].pc # proc[p].pc
        /\ ErrorFree(St, p).faults = faults
        /\ ErrorFree(St, p).logFaults = logFaults

\* C6: a call never rejects: after every step each started call either has
\* returned or can take a further step, and every step it takes brings it
\* nearer its return, so it returns within eleven steps; it returns a status
\* among completed, failed, deduplicated, rejected, rate_limited; a failed
\* result carries the message of the job's last event, which is fetch_failed
\* or validation_failed; no job emits fetch_failed twice; and a catalog or
\* blob-store error in a stage that throws ends the call in that very step
\* with exactly one more event, fetch_failed, and the result {failed, error}
\* with the message of that event.
C6_AlwaysReturns ==
    /\ [](\A p \in Procs : CanGoOn(p))
    /\ [][\A p \in Procs :
        /\ proc'[p] # proc[p] => Rank(proc'[p].pc) > Rank(proc[p].pc)
        /\ Cardinality({i \in 1..Len(events'[p]) :
                           events'[p][i].eventType = "fetch_failed"}) <= 1
        /\ proc'[p].pc = "done" =>
              /\ proc'[p].result.status \in Statuses
              /\ proc'[p].result.status = "failed" =>
                    /\ proc'[p].result = [NoResult EXCEPT !.status = "failed",
                                             !.error = Last(events'[p]).message]
                    /\ proc'[p].result.error # NoError
                    /\ Last(events'[p]).eventType
                          \in {"fetch_failed", "validation_failed"}
        /\ (proc[p].pc \in ThrowingStages /\ proc'[p] # proc[p] /\ faults' < faults) =>
              /\ proc'[p].pc = "done"
              /\ proc'[p].result.status = "failed"
              /\ Len(events'[p]) = Len(events[p]) + 1
              /\ Last(events'[p]).eventType = "fetch_failed"
       ]_vars

\* an upload threw after the image row was created, and the call returned
C6_ThrowWitness ==
    \E p \in Procs :
        /\ Done(p)
        /\ StatusOf(p) = "failed"
        /\ proc[p].result.error = Err("Upload failed", 0)
        /\ "image" \in proc[p].did
        /\ Last(events[p]).eventType = "fetch_failed"

\* what a run leaves behind, the fate of its event inserts aside
Outcome(s) ==
    [now |-> s.now, buckets |-> s.buckets, calls |-> s.calls,
     images |-> s.images, derivatives |-> s.derivatives,
     cardImages |-> s.cardImages, blobs |-> s.blobs, proc |-> s.proc,
     faults |-> s.faults,
     emitted |-> [p \in Procs |->
                    [i \in 1..Len(s.events[p]) |->
                        [eventType |-> s.events[p][i].eventType,
                         message |-> s.events[p][i].message,
                         imageId |-> s.events[p][i].imageId]]]]

\* C7: a run in which inserts of logIngestEvent fail and the run that makes
\* the same choices with every insert succeeding agree, step for step, on
\* every task's position, locals and ProcessResult, on the images,
\* image_derivatives and card_images tables, on the blob store, on the
\* buckets and on the events emitted.
C7_LogFailureHarmless ==
    twin.on /\ Outcome(St) = Outcome(twin.st)

\* an insert failed in a job that went on to be assigned, beside a job that
\* failed
C7_LostEventWitness ==
    \E p, q \in Procs :
        /\ logFaults < MaxLogFaults
        /\ Done(p) /\ StatusOf(p) = "completed"
        /\ Len(Stored(p)) < Len(events[p])
        /\ Done(q) /\ StatusOf(q) = "failed"

\* what the remote server's answer makes of a fetch for a source name
FetchFails(url, sourceName) ==
    LET r == Responses[url]
    IN  \/ r.net = "error"
        \/ r.status < 200 \/ r.status > 299
        \/ r.contentType[1] # "image"
        \/ (sourceName = "pokemontcg_api" /\ Bodies[r.body].len = 186316)

\* C8: a task that has made its fetch, for a URL whose answer is a transport
\* error, a status outside 200..299, a content-type not of type image, or a
\* body of a length in KNOWN_ERROR_PAYLOADS for the resolved source name, has
\* returned {failed, error} with fetch_failed, carrying that error, as its
\* one event after fetch_started, and has made no dedup probe, decoded
\* nothing and written nothing; the step that fetched left the catalog,
\* the blob store and the buckets as they were.  A known error payload is
\* reported as known_error_payload and a bad status as HTTP with the status.
C8_FetchFailure ==
    /\ [](\A p \in Procs :
            ("fetch" \in proc[p].did
                /\ FetchFails(proc[p].job.sourceUrl, proc[p].sourceName)) =>
                /\ Done(p)
                /\ proc[p].result = [NoResult EXCEPT !.status = "failed",
                                        !.error = Last(events[p]).message]
                /\ proc[p].result.error # NoError
                /\ EventTypes(p) = <<"fetch_started", "fetch_failed">>
                /\ proc[p].did = {"fetch"}
                /\ proc[p].bytes = None
                /\ Responses[proc[p].job.sourceUrl].net = "ok" =>
                      proc[p].result.error =
                         LET r == Responses[proc[p].job.sourceUrl]
                         IN  IF r.status < 200 \/ r.status > 299
                               THEN Err("HTTP", r.status)
                             ELSE IF r.contentType[1] # "image"
                               THEN Err("Invalid content type", 0)
                             ELSE Err("known_error_payload", 0))
    /\ [][\A p \in Procs :
            (proc[p].pc = "fetch" /\ proc'[p] # proc[p]) =>
                /\ UNCHANGED <<images, derivatives, cardImages, blobs, buckets, calls>>
                /\ FetchFails(proc[p].job.sourceUrl, proc[p].sourceName)
                      <=> proc'[p].pc = "done"
       ]_vars

\* the known error payload of pokemontcg_api was refused, and the same body
\* fetched for another source was let through
C8_KnownPayloadWitness ==
    \E p, q \in Procs :
        /\ Done(p)
        /\ proc[p].job.sourceUrl = "u_errpay"
        /\ proc[p].sourceName = "pokemontcg_api"
        /\ proc[p].result.error = Err("known_error_payload", 0)
        /\ proc[q].job.sourceUrl = "u_errpay"
        /\ proc[q].bytes = "errpay"

\* the dimensions the decoder refuses
Undecodable(bytes) ==
    \/ Bodies[bytes].width = 0
    \/ Bodies[bytes].height = 0
    \/ Bodies[bytes].width * Bodies[bytes].height > 20000000

\* C9: a task that has decoded its (new) image has, when the width or height
\* is unknown or width*height exceeds 20,000,000, returned {failed, error}
\* with validation_failed as the event after fetch_completed, run no side,
\* collage or vision check and written nothing; and otherwise, so also at
\* exactly 20,000,000 pixels, it has emitted validation_passed and run the
\* side and collage checks.  The step that decodes leaves the catalog and the
\* blob store as they were.
C9_Validation ==
    /\ [](\A p \in Procs :
            "decode" \in proc[p].did =>
                IF Undecodable(proc[p].bytes)
                  THEN /\ Done(p)
                       /\ proc[p].result = [NoResult EXCEPT !.status = "failed",
                                               !.error = Last(events[p]).message]
                       /\ proc[p].result.error # NoError
                       /\ EventTypes(p) = <<"fetch_started", "fetch_completed",
                                            "validation_failed">>
                       /\ proc[p].did = {"fetch", "probe", "decode"}
                  ELSE /\ HasEvent(p, "validation_passed")
                       /\ ~HasEvent(p, "validation_failed")
                       /\ {"side", "collage"} \subseteq proc[p].did)
    /\ [][\A p \in Procs :
            (proc[p].pc = "classify" /\ proc'[p] # proc[p]) =>
                UNCHANGED <<images, derivatives, cardImages, blobs>>
       ]_vars

\* an image of exactly maxImagePixels went on to get its row, one pixel row
\* more was refused, and so was an image of unknown dimensions
C9_BoundaryWitness ==
    \E p, q \in Procs :
        /\ proc[p].bytes = "max"
        /\ Bodies["max"].width * Bodies["max"].height = 20000000
        /\ "image" \in proc[p].did
        /\ Done(q)
        /\ proc[q].bytes = "huge"
        /\ Last(events[q]).eventType = "validation_failed"
        /\ proc[q].result.error = Err("Image too large", 20005000)

\* C10: a task that returned rejected has persisted its image row and a
\* derivative record for each of thumb, grid and detail, uploaded the three
\* blobs, left the image in status completed, and written no card_images row.
C10_RejectedIsPersisted ==
    \A p \in Procs :
        (Done(p) /\ StatusOf(p) = "rejected") =>
            LET id == proc[p].result.imageId
            IN  /\ id \in 1..Len(images)
                /\ images[id].sha256 = proc[p].sha256
                /\ \A v \in VariantSet :
                      \E d \in derivatives :
                          /\ d.imageId = id
                          /\ d.variant = v
                          /\ d.storagePath \in blobs
                /\ "assign" \notin proc[p].did
                /\ images[id].status = "completed"

\* C11: for a bucket of maxRps = N, in any window of time the calls of
\* tryAcquire that return true number at most N + floor(elapsed * N), elapsed
\* being the length of the window in seconds.  A window that holds the most
\* successes for its length starts and ends at a call.
C11_WindowBound ==
    \A i, j \in 1..Len(calls) :
        (i <= j /\ calls[i].sourceId = calls[j].sourceId
                /\ calls[i].sourceId \in DOMAIN buckets) =>
            LET N == buckets[calls[i].sourceId].maxTokens
                successes == {k \in i..j : /\ calls[k].sourceId = calls[i].sourceId
                                           /\ calls[k].granted}
            IN  Cardinality(successes)
                    <= N + ((calls[j].t - calls[i].t) * N) \div 1000

\* the tokens a bucket holds once the refill due at time t is added
Available(bucket, t) ==
    LET due == ((t - bucket.lastRefill) * bucket.refillRate) \div 1000
    IN  IF due > 0
          THEN (IF bucket.tokens + due > bucket.maxTokens
                  THEN bucket.maxTokens ELSE bucket.tokens + due)
          ELSE bucket.tokens

\* C12: every bucket holds between 0 and maxTokens tokens; a call of
\* tryAcquire returns true exactly when the bucket holds a token once the due
\* refill is added, takes exactly one token when it returns true and none
\* when it returns false, and touches no other bucket; on a source id with no
\* bucket it returns true and the bucket map stays as it was.
C12_NoOverDebit ==
    /\ [](\A id \in DOMAIN buckets :
            buckets[id].tokens >= 0 /\ buckets[id].tokens <= buckets[id].maxTokens)
    /\ [][Len(calls') = Len(calls) + 1 =>
            LET c == Last(calls')
                id == c.sourceId
            IN  IF id \notin DOMAIN buckets
                  THEN c.granted /\ buckets' = buckets
                  ELSE /\ DOMAIN buckets' = DOMAIN buckets
                       /\ c.granted <=> Available(buckets[id], now) > 0
                       /\ buckets'[id].tokens =
                             Available(buckets[id], now) - (IF c.granted THEN 1 ELSE 0)
                       /\ buckets'[id].maxTokens = buckets[id].maxTokens
                       /\ \A other \in DOMAIN buckets \ {id} :
                             buckets'[other] = buckets[other]
       ]_vars

\* a call was denied on an empty bucket, a later call on that bucket was
\* granted after a refill, and a call on a source without a bucket was granted
C12_DeniedThenRefilled ==
    \E i, j, k \in 1..Len(calls) :
        /\ i < j
        /\ calls[i].sourceId = calls[j].sourceId
        /\ calls[i].sourceId \in DOMAIN buckets
        /\ ~calls[i].granted
        /\ calls[j].granted
        /\ calls[k].sourceId \notin DOMAIN buckets
        /\ calls[k].granted

Heuristic(p) ==
    detectSide(proc[p].bytes, Bodies[proc[p].bytes].width, Bodies[proc[p].bytes].height)

Classified(p) == "side" \in proc[p].did
RanVision(p) == "vision" \in proc[p].did
InBand(confidence) == confidence >= 6000 /\ confidence < 9000

\* C14: shouldRunVisionCheck is false for every confidence at trust tier 1,
\* true for every confidence at tier 3, true at tier 2 for a confidence in
\* [0.6, 0.9), and at tier 2 outside that band it is the random sample alone
\* (Math.random() < 0.1).  So a task of tier 1 never calls the vision checker,
\* a task of tier 3 that reaches classification always does, and so does a
\* task of tier 2 whose heuristic confidence lies in the band; no task calls
\* the vision checker before it classifies.
C14_VisionCheckByTier ==
    /\ \A confidence \in {0, 3000, 5000, 5999, 6000, 8000, 8999, 9000, 9500, 10000},
          random \in {0, 999, 1000, 5000, 9999} :
            /\ ~shouldRunVisionCheck(1, confidence, random)
            /\ shouldRunVisionCheck(3, confidence, random)
            /\ InBand(confidence) => shouldRunVisionCheck(2, confidence, random)
            /\ ~InBand(confidence) =>
                  (shouldRunVisionCheck(2, confidence, random) <=> random < 1000)
    /\ \A p \in Procs :
            /\ RanVision(p) => Classified(p)
            /\ Classified(p) =>
                  /\ proc[p].trustTier = 1 => ~RanVision(p)
                  /\ proc[p].trustTier = 3 => RanVision(p)
                  /\ (proc[p].trustTier = 2 /\ InBand(Heuristic(p).confidence))
                        => RanVision(p)

\* at the same heuristic confidence of 0.5 a task of tier 2 was not sampled
\* and ran no vision check, and a task of tier 3 ran one
C14_SampledWitness ==
    \E p, q \in Procs :
        /\ Classified(p) /\ proc[p].trustTier = 2
        /\ Heuristic(p).confidence = 5000 /\ ~RanVision(p)
        /\ Classified(q) /\ proc[q].trustTier = 3
        /\ Heuristic(q).confidence = 5000 /\ RanVision(q)

\* the side results the heuristic yields on the images of the world
HeuristicResults ==
    {detectSide(b, Bodies[b].width, Bodies[b].height) :
        b \in {x \in DOMAIN Bodies : Bodies[x].width > 0}}

VisionFront == [side |-> "front", confidence |-> 9500, method |-> "vision"]
VisionBack == [side |-> "back", confidence |-> 9500, method |-> "vision"]

\* C15: the side result a task carries to the image record and the gate is
\* the vision result exactly when the vision check ran and its confidence is
\* strictly greater than the heuristic's, and the heuristic result otherwise
\* (also at equal confidence).  A task of tier 3 whose heuristic result is
\* {unknown, 0.5} carries the heuristic result, {front, 0.95, vision} or
\* {back, 0.95, vision}; with {front, 0.95, vision} and no collage it is never
\* rejected, and once it has reached the gate it is assigned and returns
\* completed unless the upsert itself reports an error.
C15_VisionOverridesOnlyWhenSurer ==
    /\ \A h \in HeuristicResults, reply \in VisionReplies :
          LET v == checkWithVision(reply)
          IN  /\ finalSide(h, TRUE, v) = (IF v.confidence > h.confidence THEN v ELSE h)
              /\ finalSide(h, FALSE, v) = h
              /\ "ERROR" \notin reply /\ "FRONT" \in reply => v = VisionFront
    /\ \A p \in Procs :
          Classified(p) =>
            LET h == Heuristic(p)
                f == proc[p].sideResult
            IN  /\ f.method = "vision" =>
                      /\ RanVision(p)
                      /\ f.confidence > h.confidence
                      /\ f \in {checkWithVision(reply) : reply \in VisionReplies}
                /\ f.method # "vision" => f = h
                /\ ~RanVision(p) => f = h
                /\ (proc[p].trustTier = 3 /\ h.side = "unknown" /\ h.confidence = 5000) =>
                      /\ f \in {h, VisionFront, VisionBack}
                      /\ (f = VisionFront /\ ~proc[p].isCollage /\ Done(p))
                            => StatusOf(p) \in {"completed", "failed"}
                      /\ (f = VisionFront /\ ~proc[p].isCollage /\ Done(p)
                             /\ HasEvent(p, "processing_completed"))
                            => \/ StatusOf(p) = "completed"
                               \/ proc[p].result.error
                                     = Err("Failed to assign image to card", 0)

\* a task of tier 3 with heuristic {unknown, 0.5} was assigned on the vision
\* answer FRONT, and another task kept its heuristic {front, 0.95} although
\* the vision check ran
C15_OverrideWitness ==
    \E p, q \in Procs :
        /\ proc[p].trustTier = 3
        /\ Classified(p)
        /\ Heuristic(p) = [side |-> "unknown", confidence |-> 5000, method |-> "heuristic"]
        /\ proc[p].sideResult = VisionFront
        /\ Done(p) /\ StatusOf(p) = "completed"
        /\ proc[p].result.confidence = 9500
        /\ Classified(q) /\ RanVision(q)
        /\ proc[q].sideResult = [side |-> "front", confidence |-> 9500, method |-> "heuristic"]

\* the image_sources rows a lookup by id or by name finds
RowsById(sourceId) == {s.id : s \in {x \in ImageSources : x.id = sourceId}}
RowsByName(name) == {s.id : s \in {x \in ImageSources : x.name = name}}

\* C16: the step that resolves the source takes the row of job.sourceId when
\* the lookup by id finds one, else the row named job.sourceName when the job
\* gives a name and the lookup by name finds one, else none (a lookup that
\* reports an error finds nothing); the task's trust tier is that of the
\* resolved source, else job.trustTier when the job carries one, else 3; and
\* when no source resolves the step installs no bucket, makes no rate check
\* and goes on to the fetch.
C16_SourceResolution ==
    [][\A p \in Procs :
        (proc[p].pc = "resolve" /\ proc'[p] # proc[p]) =>
            LET job == proc[p].job
                source == proc'[p].source
                byId == IF job.sourceId # None THEN RowsById(job.sourceId) ELSE {}
                byName == IF job.sourceName # None THEN RowsByName(job.sourceName) ELSE {}
            IN  /\ IF faults' = faults
                     THEN IF byId # {} THEN source \in byId
                          ELSE IF byName # {} THEN source \in byName
                          ELSE source = None
                     ELSE source \in byName \cup {None}
                /\ proc'[p].trustTier =
                      IF source # None THEN SourceRow(source).trustTier
                      ELSE IF job.trustTier # 0 THEN job.trustTier
                      ELSE 3
                /\ IF source = None
                     THEN /\ buckets' = buckets
                          /\ calls' = calls
                          /\ proc'[p].pc = "fetch"
                     ELSE /\ source \in DOMAIN buckets'
                          /\ Len(calls') = Len(calls) + 1
      ]_vars

\* one task was resolved by name after its id found no row, and another, with
\* no source resolved, fetched under its own trust tier with no bucket made
C16_ByNameWitness ==
    \E p, q \in Procs :
        /\ proc[p].job.sourceId = "s9"
        /\ proc[p].source = "s2"
        /\ proc[p].trustTier = 2
        /\ proc[q].job = Job("c2", "u_big", None, None, 1)
        /\ proc[q].source = None
        /\ proc[q].trustTier = 1
        /\ "fetch" \in proc[q].did
        /\ DOMAIN buckets = {"s2"}

\* the card_images rows of a card in the role primary_front
RowsOfCard(rows, cardId) ==
    {r \in rows : r.cardId = cardId /\ r.role = "primary_front"}

\* C17: card_images never holds two rows for one (cardId, primary_front); a
\* step in which a task's assignImageToCard call succeeds leaves exactly the
\* row of that call for the task's card, whatever row the card had before,
\* and leaves the rows of the other cards alone; and no other step changes
\* card_images, so the row of a card is that of the latest successful call.
C17_OneRowPerCard ==
    /\ [](\A r1, r2 \in cardImages :
            (r1.cardId = r2.cardId /\ r1.role = r2.role) => r1 = r2)
    /\ [][/\ \A p \in Procs :
              ("assign" \in proc'[p].did /\ "assign" \notin proc[p].did) =>
                  /\ RowsOfCard(cardImages', proc[p].job.cardId) = {AssignedRow(p)}
                  /\ \A r \in cardImages :
                        r.cardId # proc[p].job.cardId => r \in cardImages'
                  /\ \A r \in cardImages' :
                        r.cardId # proc[p].job.cardId => r \in cardImages
          /\ cardImages' # cardImages =>
                \E p \in Procs : "assign" \in proc'[p].did /\ "assign" \notin proc[p].did
       ]_vars

\* two tasks assigned different images to the same card, one after the
\* other, and the card holds the one row of the later call
C17_OverwriteWitness ==
    \E p, q \in Procs :
        /\ Done(p) /\ "assign" \in proc[p].did
        /\ Done(q) /\ "assign" \in proc[q].did
        /\ proc[p].job.cardId = proc[q].job.cardId
        /\ proc[p].imageId # proc[q].imageId
        /\ AssignedRow(p) \notin cardImages
        /\ RowsOfCard(cardImages, proc[q].job.cardId) = {AssignedRow(q)}

\* C18: the bytes of every fetch that returned ok were declared with a
\* content-type beginning image/, are not of a length in the known-error
\* table of the source name the fetch was given, and are fewer than a ceiling
\* set in the configuration.  The configuration sets one ceiling,
\* maxImagePixels, and no number greater than it.
C18_FetchedBytes ==
    \A p \in Procs :
        proc[p].bytes # None =>
            /\ Responses[proc[p].job.sourceUrl].contentType[1] = "image"
            /\ ~(proc[p].sourceName = "pokemontcg_api"
                    /\ Bodies[proc[p].bytes].len = 186316)
            /\ Bodies[proc[p].bytes].len < maxImagePixels

\* the image whose digest is sha256
BodyOf(sha256) == CHOOSE b \in DOMAIN Bodies : computeSha256(b) = sha256

TargetWidth(variant) ==
    CASE variant = "thumb" -> 160
      [] variant = "grid" -> 360
      [] variant = "detail" -> 960

\* derivatives/<first two characters of sha256>/<sha256>/<variant>.webp
ExpectedPath(sha256, variant) ==
    <<<<"derivatives">>, <<sha256[1], sha256[2]>>, sha256, <<variant, "webp">>>>

DerivativesOf(imageId) == {d \in derivatives : d.imageId = imageId}

\* C19: every derivative has the width min(target width of its variant,
\* width of the original), with targets 160, 360 and 960, so none is wider
\* than the original, and the path derivatives/<sha256[0:2]>/<sha256>/
\* <variant>.webp; the derivatives of an image are handled in the order
\* thumb, grid, detail (a later one is uploaded or recorded only after the
\* earlier ones); and every image whose derivatives were all recorded has
\* exactly three, one of each variant, each uploaded under its path.
C19_Derivatives ==
    /\ \A d \in derivatives :
          LET sha256 == images[d.imageId].sha256
              original == Bodies[BodyOf(sha256)].width
          IN  /\ d.variant \in VariantSet
              /\ d.width = (IF TargetWidth(d.variant) < original
                              THEN TargetWidth(d.variant) ELSE original)
              /\ d.width <= original
              /\ d.storagePath = ExpectedPath(sha256, d.variant)
              /\ d.storagePath \in blobs
    /\ \A i \in 1..Len(images) :
          LET sha256 == images[i].sha256
              recorded == {d.variant : d \in DerivativesOf(i)}
              uploaded == {v \in VariantSet : ExpectedPath(sha256, v) \in blobs}
          IN  /\ "detail" \in recorded => "grid" \in recorded
              /\ "grid" \in recorded => "thumb" \in recorded
              /\ "detail" \in uploaded => "grid" \in uploaded
              /\ "grid" \in uploaded => "thumb" \in uploaded
              /\ Cardinality(DerivativesOf(i)) = Cardinality(recorded)
    /\ \A path \in blobs :
          \E i \in 1..Len(images), v \in VariantSet :
              path = ExpectedPath(images[i].sha256, v)
    /\ \A p \in Procs :
          proc[p].pc \in {"status", "gate"}
                \/ (Done(p) /\ StatusOf(p) \in {"completed", "rejected"}) =>
              /\ Cardinality(DerivativesOf(proc[p].imageId)) = 3
              /\ {d.variant : d \in DerivativesOf(proc[p].imageId)} = VariantSet

\* an original 100 wide has derivatives 100 wide in all three variants, and
\* an original 734 wide has them 160, 360 and 734 wide
C19_NoUpscaleWitness ==
    \E i, j \in 1..Len(images) :
        /\ Bodies[BodyOf(images[i].sha256)].width = 100
        /\ {<<d.variant, d.width>> : d \in DerivativesOf(i)}
              = {<<"thumb", 100>>, <<"grid", 100>>, <<"detail", 100>>}
        /\ Bodies[BodyOf(images[j].sha256)].width = 734
        /\ {<<d.variant, d.width>> : d \in DerivativesOf(j)}
              = {<<"thumb", 160>>, <<"grid", 360>>, <<"detail", 734>>}

C21_FetchDeadline ==
    \A p \in Procs : Fetching(p) => now <= fetches[p].deadline

\* two tasks that both passed the dedup probe with the same digest and both
\* made their insert
BothInserted(p, q) ==
    /\ p # q
    /\ proc[p].sha256 # << >>
    /\ proc[p].sha256 = proc[q].sha256
    /\ HasEvent(p, "processing_started") /\ Rank(proc[p].pc) > Rank("create")
    /\ HasEvent(q, "processing_started") /\ Rank(proc[q].pc) > Rank("create")

CreateError == Err("Failed to create image record", 0)

\* C22: when two jobs with identical bytes both pass the dedup probe and both
\* reach createImageRecord, at most one insert succeeds, and exactly one when
\* the catalog reports no error of its own.  An insert that finds a row of its
\* digest in place fails: in that very step the job emits fetch_failed and
\* returns {failed, error} with the error of the insert, without another
\* lookup, leaving images, image_derivatives, card_images and the blob store
\* as they were; the job has written nothing.
C22_DedupRace ==
    /\ [](\A p, q \in Procs :
            BothInserted(p, q) =>
                /\ CreatedBy(p) = {} \/ CreatedBy(q) = {}
                /\ (faults = MaxFaults /\ PriorRows(proc[p].sha256) = {}) =>
                      CreatedBy(p) # {} \/ CreatedBy(q) # {})
    /\ [](\A p \in Procs :
            (Done(p) /\ proc[p].result.error = CreateError) =>
                /\ StatusOf(p) = "failed"
                /\ Writes(p) = {}
                /\ Last(events[p]).eventType = "fetch_failed"
                /\ ~HasEvent(p, "deduplicated")
                /\ \A d \in derivatives : d.imageId \notin CreatedBy(p))
    /\ [][\A p \in Procs :
            (proc[p].pc = "create" /\ proc'[p] # proc[p]
                /\ RowsWith(proc[p].sha256) # {}) =>
                /\ proc'[p].pc = "done"
                /\ proc'[p].result = [NoResult EXCEPT !.status = "failed",
                                         !.error = CreateError]
                /\ Len(events'[p]) = Len(events[p]) + 1
                /\ Last(events'[p]).eventType = "fetch_failed"
                /\ Last(events'[p]).message = CreateError
                /\ UNCHANGED <<images, derivatives, cardImages, blobs>>
       ]_vars

\* with no catalog error at all, one of two jobs on the same bytes holds the
\* image row and is still at work on it, and the other lost the insert and
\* returned failed with nothing written
C22_LoserWitness ==
    \E p, q \in Procs :
        /\ BothInserted(p, q)
        /\ faults = MaxFaults
        /\ CreatedBy(p) # {}
        /\ proc[p].pc = "upload"
        /\ Done(q) /\ StatusOf(q) = "failed"
        /\ proc[q].result.error = CreateError
        /\ Writes(q) = {}
        /\ EventTypes(q) = <<"fetch_started", "fetch_completed", "validation_passed",
                             "processing_started", "fetch_failed">>

\* a job that created its image row and then returned failed
FailedAfterCreate(p) ==
    /\ Done(p)
    /\ StatusOf(p) = "failed"
    /\ CreatedBy(p) # {}

AssignError == Err("Failed to assign image to card", 0)

DeriveError == Err("derivative generation failed", 0)
UploadError == Err("Upload failed", 0)

\* the path of the i-th variant (thumb, grid, detail) of task p's image
PathOf(p, i) == ExpectedPath(proc[p].sha256, Variants[i])

\* C24: when derivative generation or an upload fails, the job ends in that
\* very step: it emits fetch_failed and nothing else, and returns {failed,
\* error}.  A failed generation leaves the blob store untouched; a failed
\* upload leaves exactly the uploads made before it, in the order thumb, grid,
\* detail: the failed one is not tried again and the ones after it are not
\* made.  The step inserts no derivative record, leaves every image's status
\* and card_images as they were; and the finished job has no derivative
\* record, its image is still in status processing, it has emitted no
\* derivatives_generated (generation) or upload_completed (upload) and no
\* processing_completed, and it has written no card_images row.
C24_StageFailureAborts ==
    /\ [][\A p \in Procs :
            (proc[p].pc \in {"derive", "upload"} /\ proc'[p] # proc[p]
                /\ faults' < faults) =>
                /\ proc'[p].pc = "done"
                /\ proc'[p].result =
                      [NoResult EXCEPT !.status = "failed",
                          !.error = IF proc[p].pc = "derive"
                                      THEN DeriveError ELSE UploadError]
                /\ Len(events'[p]) = Len(events[p]) + 1
                /\ Last(events'[p]).eventType = "fetch_failed"
                /\ UNCHANGED <<images, derivatives, cardImages>>
                /\ IF proc[p].pc = "derive"
                     THEN blobs' = blobs
                     ELSE \E k \in 0..2 :
                            /\ blobs' = blobs \cup {PathOf(p, i) : i \in 1..k}
                            /\ PathOf(p, k + 1) \notin blobs'
       ]_vars
    /\ [](\A p \in Procs :
            (Done(p) /\ proc[p].result.error \in {DeriveError, UploadError}) =>
                /\ StatusOf(p) = "failed"
                /\ DerivativesOf(proc[p].imageId) = {}
                /\ images[proc[p].imageId].status = "processing"
                /\ "assign" \notin proc[p].did
                /\ "deriv" \notin proc[p].did
                /\ ~HasEvent(p, "processing_completed")
                /\ ~HasEvent(p, "upload_completed")
                /\ proc[p].result.error = DeriveError
                      => ~HasEvent(p, "derivatives_generated")
                            /\ "blob" \notin proc[p].did)

\* the upload of the grid variant failed: the thumb is in the blob store, the
\* grid and the detail are not, and the job returned failed with no
\* derivative record
C24_PartialUploadWitness ==
    \E p \in Procs :
        /\ Done(p)
        /\ proc[p].result.error = UploadError
        /\ PathOf(p, 1) \in blobs
        /\ PathOf(p, 2) \notin blobs
        /\ PathOf(p, 3) \notin blobs
        /\ DerivativesOf(proc[p].imageId) = {}
        /\ HasEvent(p, "derivatives_generated")

\* the time of the last refill of source k's bucket, installed at 0, as the
\* first n recorded calls of tryAcquire make it: a call moves it when at
\* least one token is due
RECURSIVE LastRefillAt(_, _)
LastRefillAt(k, n) ==
    IF n = 0 THEN 0
    ELSE LET prev == LastRefillAt(k, n - 1)
             c == calls[n]
         IN  IF c.sourceId = k /\ (c.t - prev) * SourceRow(k).maxRps >= 1000
               THEN c.t ELSE prev

\* C25: a run of the sweeper removes exactly the buckets whose lastRefill is
\* more than 60 s before the sweep time and leaves every other bucket, and
\* everything else, as it was; nothing but the sweeper removes a bucket; and
\* a bucket is removed only when more than 60 s have passed since its
\* installation and since the last call of tryAcquire on it at which a token
\* was due, so that a bucket acquired from at least once every 60 s with a
\* refill due each time is never removed.
C25_SweepRemovesIdle ==
    [][/\ sweepAt' # sweepAt =>
            /\ DOMAIN buckets' =
                  {k \in DOMAIN buckets : now - buckets[k].lastRefill <= 60000}
            /\ \A k \in DOMAIN buckets' : buckets'[k] = buckets[k]
            /\ \A k \in DOMAIN buckets \ DOMAIN buckets' :
                  now - LastRefillAt(k, Len(calls)) > 60000
            /\ sweepAt' = sweepAt + 60000
            /\ now >= sweepAt
            /\ UNCHANGED <<now, calls, waits>>
       /\ DOMAIN buckets' # DOMAIN buckets =>
            /\ sweepAt' # sweepAt
            /\ DOMAIN buckets' \subseteq DOMAIN buckets
      ]_vars

\* the sweep at 120 s removed the bucket of s1, untouched since start-up, and
\* kept the bucket of s2, last refilled by a call exactly 60 s before
C25_SweepWitness ==
    /\ now = 120000
    /\ sweepAt = 180000
    /\ DOMAIN buckets = {"s2"}
    /\ buckets["s2"].lastRefill = 60000
    /\ \E i \in 1..Len(calls) : calls[i].sourceId = "s2" /\ calls[i].t = 60000

\* Math.ceil(1000 / rate): the quotient, and one more when it is not exact
CeilOf1000By(rate) ==
    IF 1000 % rate = 0 THEN 1000 \div rate ELSE (1000 \div rate) + 1

\* a bucket map holding one bucket
OneBucket(sourceId, tokens, rate) ==
    [k \in {sourceId} |-> [tokens |-> tokens, lastRefill |-> 0,
                           maxTokens |-> rate, refillRate |-> rate]]

\* C26: getWaitTime(sourceId) returns ceil(1000/refillRate) when the bucket of
\* sourceId exists and holds 0 tokens, and 0 when there is no bucket or the
\* bucket holds a token; a call leaves the bucket map, and everything else,
\* as it was.
C26_WaitTime ==
    /\ \A rate \in {1, 2, 3, 7, 1000}, tokens \in 0..2 :
            /\ getWaitTime(OneBucket("s1", tokens, rate), "s1")
                  = (IF tokens = 0 THEN CeilOf1000By(rate) ELSE 0)
            /\ getWaitTime(OneBucket("s1", tokens, rate), "s2") = 0
    /\ [][waits' # waits =>
            /\ waits'.ms =
                  (IF waits'.sourceId \in DOMAIN buckets
                        /\ buckets[waits'.sourceId].tokens = 0
                     THEN CeilOf1000By(buckets[waits'.sourceId].refillRate)
                     ELSE 0)
            /\ UNCHANGED <<buckets, calls, now, sweepAt>>
       ]_vars

\* asked about the emptied bucket of s2 the limiter answered 500 ms and left
\* the bucket empty with its refill time unmoved, although a refill was due
C26_EmptyBucketWitness ==
    /\ waits = [sourceId |-> "s2", ms |-> 500]
    /\ "s2" \in DOMAIN buckets
    /\ buckets["s2"].tokens = 0
    /\ now - buckets["s2"].lastRefill >= 30000

\* C27: every card_images row points at an image whose status is completed
\* and that has a derivative record for each of thumb, grid and detail.
C27_AssignedImageIsComplete ==
    \A r \in cardImages :
        /\ r.imageId \in 1..Len(images)
        /\ images[r.imageId].status = "completed"
        /\ {d.variant : d \in DerivativesOf(r.imageId)} = VariantSet

\* C28: when a job has returned completed or rejected, the image row of the
\* imageId it returned has the status completed.
C28_ReturnedImageCompleted ==
    \A p \in Procs :
        (Done(p) /\ StatusOf(p) \in {"completed", "rejected"}) =>
            /\ proc[p].result.imageId \in 1..Len(images)
            /\ images[proc[p].result.imageId].status = "completed"

WrongCard == {"WRONG_CARD"}
\* the vision check of the job task p is on ran and was answered reply
Answered(p, reply) == RanVision(p) /\ replies.of[p] = reply
WrongCardResult == [side |-> "unknown", confidence |-> 3000, method |-> "vision"]

\* the state after the classification of task p when the vision model answers
\* reply, and when the vision check is not run (as at trust tier 1)
AfterVision(p, random, reply) == classifyStep(St, p, random, reply, NoLogErr)
AfterNoVision(p, random) ==
    classifyStep([St EXCEPT !.proc[p].trustTier = 1], p, random, {}, NoLogErr)

\* what a job that was not deduplicated returns when no vision check is run
\* and no call fails
HeuristicStatus(p) ==
    IF Heuristic(p).side = "front" /\ Heuristic(p).confidence >= 8500
          /\ ~detectCollage(proc[p].bytes)
      THEN "completed" ELSE "rejected"

\* C29: every heuristic confidence is at least 0.5 and the result of a
\* WRONG_CARD answer has confidence 0.3, so the side result after a vision
\* check answered WRONG_CARD is the heuristic one, as it is with the check
\* skipped.  The classification of a task leaves, on that answer, the very
\* state it leaves with the check skipped (but for the record that the check
\* ran); and a task that received that answer carries the heuristic side,
\* confidence and method, and once finished it has returned, and been
\* assigned or not, as the heuristic alone decides.
C29_WrongCardChangesNothing ==
    /\ \A h \in HeuristicResults :
          /\ h.confidence >= 5000
          /\ checkWithVision(WrongCard) = WrongCardResult
          /\ finalSide(h, TRUE, checkWithVision(WrongCard)) = h
          /\ finalSide(h, TRUE, checkWithVision(WrongCard))
                = finalSide(h, FALSE, checkWithVision(WrongCard))
    /\ \A p \in Procs :
          /\ proc[p].pc = "classify" =>
                \A random \in Randoms :
                    LET a == AfterVision(p, random, WrongCard)
                        b == AfterNoVision(p, random)
                    IN  [a EXCEPT !.proc[p].did = @ \ {"vision"},
                                  !.proc[p].trustTier = 1] = b
          /\ Answered(p, WrongCard) =>
                /\ proc[p].sideResult = Heuristic(p)
                /\ (Done(p) /\ StatusOf(p) # "failed") =>
                      /\ StatusOf(p) = HeuristicStatus(p)
                      /\ proc[p].result.detectedSide = Heuristic(p).side
                      /\ proc[p].result.confidence = Heuristic(p).confidence
                      /\ "assign" \in proc[p].did <=> HeuristicStatus(p) = "completed"

\* the vision model answered WRONG_CARD for a task of tier 3 whose heuristic
\* result was {front, 0.95}, and the image was assigned to the card all the
\* same; for another task it answered WRONG_CARD and the task was rejected on
\* its heuristic result
C29_WrongCardWitness ==
    \E p, q \in Procs :
        /\ Answered(p, WrongCard)
        /\ proc[p].trustTier = 3
        /\ Done(p) /\ StatusOf(p) = "completed"
        /\ AssignedRow(p) \in cardImages
        /\ Answered(q, WrongCard)
        /\ Done(q) /\ StatusOf(q) = "rejected"
        /\ proc[q].result.confidence = 5000

Front95 == [side |-> "front", confidence |-> 9500, method |-> "heuristic"]

\* C30: when the heuristic yields {front, 0.95} no answer of the vision model
\* changes the side result: the task carries {front, 0.95, heuristic} whatever
\* the answer, and when its image is no collage the gate assigns it to the
\* card as primary_front and the job returns completed with side front and
\* confidence 0.95 (it returns failed only when it lost the insert to a job
\* on the same bytes).
C30_SureFrontStandsAgainstVision ==
    /\ \A reply \in VisionReplies :
          /\ finalSide(Front95, TRUE, checkWithVision(reply)) = Front95
          /\ finalSide(Front95, FALSE, checkWithVision(reply)) = Front95
    /\ [](\A p \in Procs :
            (Classified(p) /\ Heuristic(p) = Front95) =>
                /\ proc[p].sideResult = Front95
                /\ (Done(p) /\ ~proc[p].isCollage) =>
                      \/ /\ StatusOf(p) = "completed"
                         /\ "assign" \in proc[p].did
                         /\ proc[p].result.detectedSide = "front"
                         /\ proc[p].result.confidence = 9500
                      \/ /\ StatusOf(p) = "failed"
                         /\ proc[p].result.error = CreateError)
    /\ [][\A p \in Procs :
            (proc[p].pc = "gate" /\ proc'[p] # proc[p] /\ Heuristic(p) = Front95
                /\ ~proc[p].isCollage) =>
                /\ AssignedRow(p) \in cardImages'
                /\ AssignedRow(p).role = "primary_front"
                /\ proc'[p].result.status = "completed"
       ]_vars

\* the vision model answered BACK for an image the heuristic took for a
\* front at 0.95, and the image is the card's primary_front
C30_BackAnswerWitness ==
    \E p \in Procs :
        /\ Answered(p, {"BACK"})
        /\ Heuristic(p) = Front95
        /\ Done(p) /\ StatusOf(p) = "completed"
        /\ proc[p].result.detectedSide = "front"
        /\ AssignedRow(p) \in cardImages
        /\ AssignedRow(p).role = "primary_front"

\* the sha256 lookup of the job task p is on reported an error
LookupFailed(p) == "probe" \in proc[p].did /\ replies.lookup[p] \in {"held", "new"}
\* ... while the catalog held a row with the sha256
LookupMissed(p) == "probe" \in proc[p].did /\ replies.lookup[p] = "held"
\* the lookup error is the only error of the run, and the bytes decode
LookupErrorAlone(p) ==
    LookupFailed(p) /\ faults = MaxFaults - 1 /\ decodeImage(proc[p].bytes).ok

\* C31: a job whose sha256 lookup reported an error goes on as for a new
\* image: it is never taken for a duplicate, and when that error is the only
\* one of the run and the bytes decode, the job returns failed only as it
\* would have without the error, having lost the insert to a job that
\* inserted the same bytes after the lookup.
C31_LookupErrorIsHarmless ==
    \A p \in Procs :
        LookupFailed(p) =>
            /\ proc[p].pc # "dedupAssign"
            /\ StatusOf(p) # "deduplicated"
            /\ (Done(p) /\ LookupErrorAlone(p) /\ StatusOf(p) = "failed")
                  => ~LookupMissed(p)

\* what holds of a job whose sha256 lookup reported an error: it decodes and
\* classifies, it is never a deduplication, and when that error is the only
\* one and the bytes decode it fails only at the insert, on a catalog that
\* holds a row with its sha256
LookupErrorGoesOn ==
    \A p \in Procs :
        LookupFailed(p) =>
            /\ proc[p].pc \in {"classify", "create", "derive", "upload", "record",
                                "status", "gate", "done"}
            /\ "decode" \in proc[p].did \/ proc[p].pc = "classify"
            /\ StatusOf(p) # "deduplicated"
            /\ (Done(p) /\ LookupErrorAlone(p) /\ StatusOf(p) = "failed")
                  => /\ proc[p].result.error = CreateError
                     /\ Sha256Taken(images, proc[p].sha256)

\* the twin's run, read with the catalog's own image_sources rows
TwinAsHere == [twin.st EXCEPT !.sources = ImageSources]

\* C32: a run of processImage and the run that differs from it only in the
\* isAllowed and maxConcurrency fields of the image_sources rows are, after
\* the same steps, in the same state: the same rate checks, fetches, events,
\* image, derivative and card_images rows, blobs and results.
C32_FieldsDoNotMatter ==
    /\ twin.on
    /\ twin.st.sources \in FieldTables
    /\ TwinAsHere = St

\* a job of source s3, which is not allowed, was fetched and its image
\* assigned to the card, as in the run where s3 is allowed
C32_NotAllowedAssignedWitness ==
    \E p \in Procs :
        /\ proc[p].source = "s3"
        /\ ~SourceRow("s3").isAllowed
        /\ SourceRowIn(twin.st.sources, "s3").isAllowed
        /\ "fetch" \in proc[p].did
        /\ Done(p) /\ StatusOf(p) = "completed"
        /\ AssignedRow(p) \in cardImages
        /\ AssignedRow(p).sourceId = "s3"
        /\ twin.st.proc[p] = proc[p]

====
